---- MODULE Spec2Model ----
(***************************************************************************)
(* Model of the ADIF streaming codec (cammeresi/adif): the incremental tag *)
(* decoder (src/parse/mod.rs, TagDecoder), the record aggregator           *)
(* (RecordStream), the Record container (src/lib.rs) and the tag encoder   *)
(* (src/write/mod.rs).  A byte is modelled as a short string: an ASCII     *)
(* byte is its character, "0xC3" "0xA9" are the two bytes of a two-byte    *)
(* UTF-8 character and "0xFF" is a byte that is never valid UTF-8.  A byte *)
(* string is a sequence of bytes; offsets are 0-based as in the source.    *)
(***************************************************************************)
EXTENDS Integers, Sequences, FiniteSets, TLC

\* ------------------------------------------------------------------ bounds
\* Width of the machine word (usize) in the model; the source runs with 64.
UsizeBits == 6
\* Largest number of fields the Record API specification inserts.
MaxInserts == 4
\* Largest number of records in a list written by the RecordSink.
MaxRecords == 2

RECURSIVE Pow2(_)
Pow2(n) == IF n = 0 THEN 1 ELSE 2 * Pow2(n - 1)

UsizeMax == Pow2(UsizeBits) - 1

\* ------------------------------------------------------------ byte helpers
\* Option<usize>::None of an offset or a parsed number.
None == -1

Upper == <<"A","B","C","D","E","F","G","H","I","J","K","L","M",
           "N","O","P","Q","R","S","T","U","V","W","X","Y","Z">>
Lower == <<"a","b","c","d","e","f","g","h","i","j","k","l","m",
           "n","o","p","q","r","s","t","u","v","w","x","y","z">>
Digits == <<"0","1","2","3","4","5","6","7","8","9">>

ToAsciiLowercase(b) ==
    IF \E i \in 1..26 : Upper[i] = b
    THEN Lower[CHOOSE i \in 1..26 : Upper[i] = b]
    ELSE b

EqIgnoreAsciiCase(a, b) ==
    /\ Len(a) = Len(b)
    /\ \A i \in 1..Len(a) : ToAsciiLowercase(a[i]) = ToAsciiLowercase(b[i])

IsAsciiWhitespace(b) == b \in {" ", "\t", "\n", "\f", "\r"}

IsDigit(b) == \E i \in 1..10 : Digits[i] = b
DigitVal(b) == (CHOOSE i \in 1..10 : Digits[i] = b) - 1

\* Rust slice src[b..e] with 0-based offsets.
Slice(s, b, e) == SubSeq(s, b + 1, e)
\* Rust src[n..] (BytesMut::advance(n)).
DropFront(s, n) == SubSeq(s, n + 1, Len(s))

\* iter().position(|&b| b == c): 0-based offset of the first c, or None.
PositionOf(s, c) ==
    IF \E i \in 1..Len(s) : s[i] = c
    THEN (CHOOSE i \in 1..Len(s) : s[i] = c /\ \A j \in 1..(i-1) : s[j] # c) - 1
    ELSE None

\* iter().position(|&b| !b.is_ascii_whitespace()).unwrap_or(src.len())
WhitespacePrefix(s) ==
    IF \E i \in 1..Len(s) : ~IsAsciiWhitespace(s[i])
    THEN (CHOOSE i \in 1..Len(s) :
              /\ ~IsAsciiWhitespace(s[i])
              /\ \A j \in 1..(i-1) : IsAsciiWhitespace(s[j])) - 1
    ELSE Len(s)

\* tag.split(|&b| b == b':'): the parts between the colons.
RECURSIVE Split(_)
Split(s) ==
    LET p == PositionOf(s, ":") IN
    IF p = None THEN <<s>>
    ELSE <<Slice(s, 0, p)>> \o Split(DropFront(s, p + 1))

\* str::from_utf8(data).is_ok(), for the bytes of the model.
RECURSIVE IsUtf8(_)
IsUtf8(s) ==
    IF s = <<>> THEN TRUE
    ELSE IF s[1] = "0xFF" \/ s[1] = "0xA9" THEN FALSE
    ELSE IF s[1] = "0xC3"
         THEN Len(s) >= 2 /\ s[2] = "0xA9" /\ IsUtf8(DropFront(s, 2))
    ELSE IsUtf8(Tail(s))

\* str::parse::<usize>(): an optional '+', then one or more digits, no
\* overflow of the machine word.
RECURSIVE ParseDigits(_, _)
ParseDigits(s, acc) ==
    IF s = <<>> THEN acc
    ELSE IF ~IsDigit(s[1]) THEN None
    ELSE LET v == acc * 10 + DigitVal(s[1]) IN
         IF v > UsizeMax THEN None ELSE ParseDigits(Tail(s), v)

ParseUsize(s) ==
    LET d == IF s # <<>> /\ s[1] = "+" THEN Tail(s) ELSE s IN
    IF d = <<>> THEN None ELSE ParseDigits(d, 0)

\* itoa::Buffer::format(n): decimal digits of n.
RECURSIVE Itoa(_)
Itoa(n) == IF n < 10 THEN <<Digits[n + 1]>>
           ELSE Itoa(n \div 10) \o <<Digits[(n % 10) + 1]>>

\* ------------------------------------------------------------------ Datum
\* enum Datum: one record shape for all six variants; the payload of a
\* String is s, of a Boolean is b, of the other kinds the numbers in n.
DString(s)        == [typ |-> "String",   s |-> s,    n |-> <<>>,        b |-> FALSE]
DBoolean(b)       == [typ |-> "Boolean",  s |-> <<>>, n |-> <<>>,        b |-> b]
DNumber(m, e)     == [typ |-> "Number",   s |-> <<>>, n |-> <<m, e>>,    b |-> FALSE]
DDate(y, m, d)    == [typ |-> "Date",     s |-> <<>>, n |-> <<y, m, d>>, b |-> FALSE]
DTime(h, m, sec)  == [typ |-> "Time",     s |-> <<>>, n |-> <<h, m, sec>>, b |-> FALSE]
DDateTime(y, mo, d, h, mi, sec) ==
    [typ |-> "DateTime", s |-> <<>>, n |-> <<y, mo, d, h, mi, sec>>, b |-> FALSE]

\* Option<Datum> of a value parser.
NoDatum == [ok |-> FALSE, datum |-> DString(<<>>)]
SomeDatum(d) == [ok |-> TRUE, datum |-> d]

\* Up to `width` leading digits of s (at least one), after leading white
\* space (chrono scan::number): the value and the rest of the text.
RECURSIVE ScanDigits(_, _, _, _)
ScanDigits(s, width, acc, taken) ==
    IF s # <<>> /\ IsDigit(s[1]) /\ taken < width
    THEN ScanDigits(Tail(s), width, acc * 10 + DigitVal(s[1]), taken + 1)
    ELSE [ok |-> taken > 0, v |-> acc, rest |-> s]

ScanNumber(s, width) == ScanDigits(DropFront(s, WhitespacePrefix(s)), width, 0, 0)

IsLeapYear(y) == (y % 4 = 0 /\ y % 100 # 0) \/ y % 400 = 0
DaysInMonth(y, m) ==
    IF m \in {4, 6, 9, 11} THEN 30
    ELSE IF m = 2 THEN (IF IsLeapYear(y) THEN 29 ELSE 28)
    ELSE 31

\* The year of %Y (chrono parse, a signed numeric item): after any white
\* space, all the digits that follow an explicit sign, or up to four digits.
Negated(r) == [r EXCEPT !.v = 0 - r.v]

ScanSigned(t) ==
    IF t # <<>> /\ t[1] = "+" THEN ScanDigits(Tail(t), Len(t), 0, 0)
    ELSE IF t # <<>> /\ t[1] = "-"
         THEN Negated(ScanDigits(Tail(t), Len(t), 0, 0))
    ELSE ScanDigits(t, 4, 0, 0)

ScanYear(s) == ScanSigned(DropFront(s, WhitespacePrefix(s)))

\* NaiveDate::parse_from_str(v, "%Y%m%d"): year, month and day are scanned
\* in turn, nothing may follow, and the date must exist.
DateFromDay(y, m, d) ==
    IF ~d.ok \/ d.rest # <<>> THEN NoDatum
    ELSE IF m \notin 1..12 THEN NoDatum
    ELSE IF d.v < 1 \/ d.v > DaysInMonth(y, m) THEN NoDatum
    ELSE SomeDatum(DDate(y, m, d.v))

DateFromMonth(y, m) ==
    IF ~m.ok THEN NoDatum ELSE DateFromDay(y, m.v, ScanNumber(m.rest, 2))

DateFromYear(y) ==
    IF ~y.ok THEN NoDatum ELSE DateFromMonth(y.v, ScanNumber(y.rest, 2))

ParseDate(v) == DateFromYear(ScanYear(v))

\* NaiveTime::parse_from_str(v, "%H%M%S"); second 60 is a leap second.
TimeFromSecond(h, m, sec) ==
    IF ~sec.ok \/ sec.rest # <<>> THEN NoDatum
    ELSE IF h > 23 \/ m > 59 \/ sec.v > 60 THEN NoDatum
    ELSE SomeDatum(DTime(h, m, sec.v))

TimeFromMinute(h, m) ==
    IF ~m.ok THEN NoDatum ELSE TimeFromSecond(h, m.v, ScanNumber(m.rest, 2))

TimeFromHour(h) ==
    IF ~h.ok THEN NoDatum ELSE TimeFromMinute(h.v, ScanNumber(h.rest, 2))

ParseTime(v) == TimeFromHour(ScanNumber(v, 2))

\* Decimal::from_str(v): optional sign, digits with at most one point, at
\* least one digit; the value is mantissa * 10^(-scale).
RECURSIVE DecimalDigits(_, _, _, _, _)
DecimalDigits(s, mant, scale, seenPoint, seenDigit) ==
    IF s = <<>> THEN [ok |-> seenDigit, mant |-> mant, scale |-> scale]
    ELSE IF IsDigit(s[1])
         THEN DecimalDigits(Tail(s), mant * 10 + DigitVal(s[1]),
                            IF seenPoint THEN scale + 1 ELSE scale,
                            seenPoint, TRUE)
    ELSE IF s[1] = "." /\ ~seenPoint
         THEN DecimalDigits(Tail(s), mant, scale, TRUE, seenDigit)
    ELSE [ok |-> FALSE, mant |-> 0, scale |-> 0]

DecimalOf(neg, r) ==
    IF ~r.ok THEN NoDatum
    ELSE SomeDatum(DNumber(IF neg THEN 0 - r.mant ELSE r.mant, r.scale))

ParseDecimal(v) ==
    IF v # <<>> /\ v[1] \in {"-", "+"}
    THEN DecimalOf(v[1] = "-", DecimalDigits(Tail(v), 0, 0, FALSE, FALSE))
    ELSE DecimalOf(FALSE, DecimalDigits(v, 0, 0, FALSE, FALSE))

\* ------------------------------------------------------- errors and tags
Position(d) == [line |-> d.line, column |-> d.column, byte |-> d.consumed]
NoPosition == [line |-> 0, column |-> 0, byte |-> 0]
NoRecord == [header |-> FALSE, fields |-> <<>>]

PartialData == <<"partial data at end of stream">>

\* Error::InvalidFormat { message, position }
InvalidFormat(message, position) ==
    [err |-> "InvalidFormat", message |-> message, position |-> position,
     key |-> <<>>, record |-> NoRecord]
\* Error::DuplicateKey { key, record }
DuplicateKey(key, record) ==
    [err |-> "DuplicateKey", message |-> <<>>, position |-> NoPosition,
     key |-> key, record |-> record]
\* Error::CannotOutput { typ, reason }
CannotOutput(typ, reason) ==
    [err |-> "CannotOutput", message |-> <<typ, reason>>,
     position |-> NoPosition, key |-> <<>>, record |-> NoRecord]

NoError == [err |-> "none", message |-> <<>>, position |-> NoPosition,
            key |-> <<>>, record |-> NoRecord]

\* String::from_utf8_lossy: text that is valid UTF-8 is kept, every byte
\* that is not part of a valid character becomes U+FFFD.
RECURSIVE FromUtf8Lossy(_)
FromUtf8Lossy(s) ==
    IF s = <<>> THEN <<>>
    ELSE IF s[1] = "0xC3" /\ Len(s) >= 2 /\ s[2] = "0xA9"
         THEN <<"0xC3", "0xA9">> \o FromUtf8Lossy(DropFront(s, 2))
    ELSE IF s[1] \in {"0xC3", "0xA9", "0xFF"}
         THEN <<"U+FFFD">> \o FromUtf8Lossy(Tail(s))
    ELSE <<s[1]>> \o FromUtf8Lossy(Tail(s))

\* TagDecoder::invalid_tag
InvalidTag(d, tag) == InvalidFormat(FromUtf8Lossy(tag), Position(d))

\* enum ParserTag / enum Tag
FieldTag(name, value) == [tag |-> "Field", name |-> name, value |-> value]
Eoh == [tag |-> "Eoh", name |-> <<>>, value |-> DString(<<>>)]
Eor == [tag |-> "Eor", name |-> <<>>, value |-> DString(<<>>)]
Eof == [tag |-> "Eof", name |-> <<>>, value |-> DString(<<>>)]

\* Result<Option<T>, Error> of a decode call, plus the panic outcome.
RSome(t)  == [kind |-> "Some",  tag |-> t,   error |-> NoError]
RNone     == [kind |-> "None",  tag |-> Eof, error |-> NoError]
RErr(e)   == [kind |-> "Err",   tag |-> Eof, error |-> e]
RPanic    == [kind |-> "Panic", tag |-> Eof, error |-> NoError]

\* ------------------------------------------------------------ TagDecoder
\* The decoder's fields other than ignore_partial, as new_stream sets them.
NewDecoder == [consumed |-> 0, line |-> 1, column |-> 1]
\* The same fields as the derived Default sets them (ignore_partial is
\* false).
DefaultDecoder == [consumed |-> 0, line |-> 0, column |-> 0]

\* TagDecoder::advance_slice
RECURSIVE AdvanceSlice(_, _)
AdvanceSlice(d, data) ==
    IF data = <<>> THEN d
    ELSE AdvanceSlice(
            IF data[1] = "\n"
            THEN [consumed |-> d.consumed + 1, line |-> d.line + 1, column |-> 1]
            ELSE [consumed |-> d.consumed + 1, line |-> d.line,
                  column |-> d.column + 1],
            Tail(data))

\* TagDecoder::advance, second half: skip the `ws` whitespace bytes at the
\* front of the buffer.
SkipWhitespace(d, src, ws) ==
    [d |-> AdvanceSlice(d, Slice(src, 0, ws)), src |-> DropFront(src, ws)]

AfterConsume(d, src, skip_whitespace) ==
    IF skip_whitespace THEN SkipWhitespace(d, src, WhitespacePrefix(src))
    ELSE [d |-> d, src |-> src]

\* Mutant of Advance: nothing is removed from the buffer.
Advance_KeepsBuffer(d, src, n, skip_whitespace) ==
    [d |-> AdvanceSlice(d, Slice(src, 0, n)), src |-> src]

\* Mutant of Advance: the whitespace after a tag is never skipped.
Advance_NoSkip(d, src, n, skip_whitespace) ==
    AfterConsume(AdvanceSlice(d, Slice(src, 0, n)), DropFront(src, n), FALSE)

\* TagDecoder::advance: the decoder and the buffer after consuming `n` bytes
\* and, if asked, the ASCII whitespace that follows them in the buffer.
Advance(d, src, n, skip_whitespace) ==
    AfterConsume(AdvanceSlice(d, Slice(src, 0, n)), DropFront(src, n),
                 skip_whitespace)

\* Mutant of ParseTypedValue: a typed boolean must be an upper-case letter.
ParseTypedValue_UpperBool(v, typ) ==
    IF typ \in {<<"n">>, <<"N">>} THEN ParseDecimal(v)
    ELSE IF typ \in {<<"b">>, <<"B">>}
         THEN (IF v = <<"Y">> THEN SomeDatum(DBoolean(TRUE))
               ELSE IF v = <<"N">> THEN SomeDatum(DBoolean(FALSE))
               ELSE NoDatum)
    ELSE IF typ \in {<<"d">>, <<"D">>} THEN ParseDate(v)
    ELSE IF typ \in {<<"t">>, <<"T">>} THEN ParseTime(v)
    ELSE SomeDatum(DString(v))

\* TagDecoder::parse_typed_value; typ is the type code or <<>> when absent.
ParseTypedValue(v, typ) ==
    IF typ \in {<<"n">>, <<"N">>} THEN ParseDecimal(v)
    ELSE IF typ \in {<<"b">>, <<"B">>}
         THEN (IF v \in {<<"Y">>, <<"y">>} THEN SomeDatum(DBoolean(TRUE))
               ELSE IF v \in {<<"N">>, <<"n">>} THEN SomeDatum(DBoolean(FALSE))
               ELSE NoDatum)
    ELSE IF typ \in {<<"d">>, <<"D">>} THEN ParseDate(v)
    ELSE IF typ \in {<<"t">>, <<"T">>} THEN ParseTime(v)
    ELSE SomeDatum(DString(v))

\* Result of parse_value: Err(e), Ok(None), Ok(Some((name, value, end))) or
\* a panic.
PVErr(e) == [kind |-> "Err", error |-> e, name |-> <<>>,
             value |-> DString(<<>>), end |-> 0]
PVNone == [kind |-> "None", error |-> NoError, name |-> <<>>,
           value |-> DString(<<>>), end |-> 0]
PVPanic == [kind |-> "Panic", error |-> NoError, name |-> <<>>,
            value |-> DString(<<>>), end |-> 0]
PVSome(name, value, end) ==
    [kind |-> "Some", error |-> NoError, name |-> name, value |-> value,
     end |-> end]

\* The value's end offset, offset + 1 + len, in the machine word: None when
\* the addition overflows in a build with overflow checks (a panic), the
\* wrapped sum otherwise.
ValueEnd(offset, len, overflow_checks) ==
    IF offset + 1 + len > UsizeMax
    THEN (IF overflow_checks THEN None ELSE (offset + 1 + len) % (UsizeMax + 1))
    ELSE offset + 1 + len

\* TagDecoder::parse_value, lines 174-178: the value bytes as text, then as
\* a datum of the tag's type.
ParseValueDatum(d, tag, name, end, datum) ==
    IF ~datum.ok THEN PVErr(InvalidTag(d, tag))
    ELSE PVSome(name, datum.datum, end)

ParseValueBytes(d, tag, name, typ, end, value) ==
    IF ~IsUtf8(value) THEN PVErr(InvalidTag(d, tag))
    ELSE ParseValueDatum(d, tag, name, end, ParseTypedValue(value, typ))

\* TagDecoder::parse_value, lines 169-174: the bounds of the value and the
\* slice of the buffer between them.
ParseValueSlice(d, src, tag, name, typ, begin, end) ==
    IF end = None THEN PVPanic
    ELSE IF end > Len(src) THEN PVNone
    ELSE IF begin > end THEN PVPanic
    ELSE ParseValueBytes(d, tag, name, typ, end, Slice(src, begin, end))

\* TagDecoder::parse_value, lines 164-167: name, length and type code.
ParseValueParts(d, src, offset, tag, overflow_checks, name, len, typ) ==
    IF ~IsUtf8(name) \/ len = None \/ ~IsUtf8(typ)
    THEN PVErr(InvalidTag(d, tag))
    ELSE ParseValueSlice(d, src, tag, name, typ, offset + 1,
                         ValueEnd(offset, len, overflow_checks))

\* Mutant of ParseValueSplit: parts after the third are ignored.
ParseValueSplit_AtLeastTwo(d, src, offset, tag, overflow_checks, parts) ==
    IF Len(parts) < 2 THEN PVErr(InvalidTag(d, tag))
    ELSE ParseValueParts(d, src, offset, tag, overflow_checks, parts[1],
                         IF IsUtf8(parts[2]) THEN ParseUsize(parts[2]) ELSE None,
                         IF Len(parts) >= 3 THEN parts[3] ELSE <<>>)

\* TagDecoder::parse_value, lines 157-162: two or three parts.
ParseValueSplit(d, src, offset, tag, overflow_checks, parts) ==
    IF Len(parts) \notin {2, 3} THEN PVErr(InvalidTag(d, tag))
    ELSE ParseValueParts(d, src, offset, tag, overflow_checks, parts[1],
                         IF IsUtf8(parts[2]) THEN ParseUsize(parts[2]) ELSE None,
                         IF Len(parts) = 3 THEN parts[3] ELSE <<>>)

\* TagDecoder::parse_value
ParseValue(d, src, offset, tag, overflow_checks) ==
    ParseValueSplit(d, src, offset, tag, overflow_checks, Split(tag))

\* Outcome of a decode call: the result, the decoder and the buffer after it.
Outcome(res, d, src) == [res |-> res, d |-> d, src |-> src]

\* The outcome `res` of a call that ends with advance().
Advanced(res, a) == Outcome(res, a.d, a.src)

\* TagDecoder::decode_inner, lines 208-214: a field tag.
DecodeField(d, src, pv) ==
    IF pv.kind = "Err" THEN Outcome(RErr(pv.error), d, src)
    ELSE IF pv.kind = "Panic" THEN Outcome(RPanic, d, src)
    ELSE IF pv.kind = "None" THEN Outcome(RNone, d, src)
    ELSE Advanced(RSome(FieldTag(pv.name, pv.value)),
                  Advance(d, src, pv.end, TRUE))

\* Mutant of DecodeBody: a body that starts with eoh or eor is that marker.
DecodeBody_MarkerPrefix(d, src, overflow_checks, end, tag) ==
    IF Len(tag) >= 3 /\ EqIgnoreAsciiCase(SubSeq(tag, 1, 3), <<"e","o","h">>)
    THEN Advanced(RSome(Eoh), Advance(d, src, end + 1, TRUE))
    ELSE IF Len(tag) >= 3
            /\ EqIgnoreAsciiCase(SubSeq(tag, 1, 3), <<"e","o","r">>)
    THEN Advanced(RSome(Eor), Advance(d, src, end + 1, TRUE))
    ELSE IF EqIgnoreAsciiCase(tag,
                <<"a","p","p","_","l","o","t","w","_","e","o","f">>)
    THEN Advanced(RSome(Eof), Advance(d, src, Len(src), TRUE))
    ELSE DecodeField(d, src, ParseValue(d, src, end, tag, overflow_checks))

\* TagDecoder::decode_inner, lines 193-208: the tag body is a marker or a
\* field tag; src starts at the '<' and `end` is the offset of the '>'.
DecodeBody(d, src, overflow_checks, end, tag) ==
    IF EqIgnoreAsciiCase(tag, <<"e","o","h">>)
    THEN Advanced(RSome(Eoh), Advance(d, src, end + 1, TRUE))
    ELSE IF EqIgnoreAsciiCase(tag, <<"e","o","r">>)
    THEN Advanced(RSome(Eor), Advance(d, src, end + 1, TRUE))
    ELSE IF EqIgnoreAsciiCase(tag,
                <<"a","p","p","_","l","o","t","w","_","e","o","f">>)
    THEN Advanced(RSome(Eof), Advance(d, src, Len(src), TRUE))
    ELSE DecodeField(d, src, ParseValue(d, src, end, tag, overflow_checks))

\* Mutant of DecodeEnd: a tag without its '>' is dropped from the buffer.
DecodeEnd_DropPartial(d, src, overflow_checks, end) ==
    IF end = None THEN Advanced(RNone, Advance(d, src, Len(src), FALSE))
    ELSE DecodeBody(d, src, overflow_checks, end, Slice(src, 1, end))

\* TagDecoder::decode_inner, lines 188-191: the '>' that ends the tag.
DecodeEnd(d, src, overflow_checks, end) ==
    IF end = None THEN Outcome(RNone, d, src)
    ELSE DecodeBody(d, src, overflow_checks, end, Slice(src, 1, end))

DecodeTag(a, overflow_checks) ==
    DecodeEnd(a.d, a.src, overflow_checks, PositionOf(a.src, ">"))

\* TagDecoder::decode_inner, lines 184-187: the '<' that starts the tag.
DecodeBegin(d, src, overflow_checks, begin) ==
    IF begin = None THEN Outcome(RNone, d, src)
    ELSE DecodeTag(Advance(d, src, begin, FALSE), overflow_checks)

\* TagDecoder::decode_inner
DecodeInner(d, src, overflow_checks) ==
    DecodeBegin(d, src, overflow_checks, PositionOf(src, "<"))

\* Mutant of DecodeMatch: at end of input an empty buffer is reported as
\* partial data too (the src.is_empty() arm is missing).
DecodeMatch_ErrOnEmpty(r, eof) ==
    IF r.res.kind \in {"Err", "Panic"} THEN r
    ELSE IF r.res.kind = "Some"
         THEN (IF r.res.tag.tag = "Eof" THEN Outcome(RNone, r.d, r.src) ELSE r)
    ELSE IF ~eof THEN r
    ELSE Outcome(RErr(InvalidFormat(PartialData, Position(r.d))), r.d, r.src)

\* TagDecoder::decode, lines 221-239: the match on (res, eof, src.is_empty())
\* and the mapping of ParserTag to Tag.
DecodeMatch(r, eof) ==
    IF r.res.kind \in {"Err", "Panic"} THEN r
    ELSE IF r.res.kind = "Some"
         THEN (IF r.res.tag.tag = "Eof" THEN Outcome(RNone, r.d, r.src) ELSE r)
    ELSE IF ~eof THEN r
    ELSE IF r.src = <<>> THEN r
    ELSE Outcome(RErr(InvalidFormat(PartialData, Position(r.d))), r.d, r.src)

\* TagDecoder::decode(src, eof)
DecodeWith(d, src, eof, overflow_checks) ==
    DecodeMatch(DecodeInner(d, src, overflow_checks), eof)

\* <TagDecoder as Decoder>::decode
Decode(d, src, overflow_checks) == DecodeWith(d, src, FALSE, overflow_checks)

\* <TagDecoder as Decoder>::decode_eof
DecodeEof(d, src, ignore_partial, overflow_checks) ==
    DecodeWith(d, src, ~ignore_partial, overflow_checks)

\* ----------------------------------------------------------------- Record
\* struct Record { header, fields }: fields is the IndexMap, a sequence of
\* entries in insertion order whose keys compare ignoring ASCII case.
NewRecord == [header |-> FALSE, fields |-> <<>>]
NewHeader == [header |-> TRUE, fields |-> <<>>]
Entry(name, value) == [name |-> name, value |-> value]

\* Offset of the entry whose key equals name as a CiString, or None.
EntryIndex(fields, name) ==
    IF \E i \in 1..Len(fields) : EqIgnoreAsciiCase(fields[i].name, name)
    THEN CHOOSE i \in 1..Len(fields) : EqIgnoreAsciiCase(fields[i].name, name)
    ELSE None

\* Mutant of Insert: a duplicate name overwrites the stored value and the
\* call succeeds (IndexMap::insert instead of the entry API).
Insert_Overwrite(record, name, value) ==
    LET i == EntryIndex(record.fields, name) IN
    IF i # None
    THEN [ok |-> TRUE,
          record |-> [record EXCEPT !.fields[i].value = value],
          error |-> NoError]
    ELSE [ok |-> TRUE,
          record |-> [record EXCEPT !.fields = Append(@, Entry(name, value))],
          error |-> NoError]

\* Mutant of Insert: a duplicate name is reported, but only after the new
\* spelling of the key has replaced the stored one.
Insert_ReplaceKeyThenFail(record, name, value) ==
    LET i == EntryIndex(record.fields, name) IN
    IF i # None
    THEN LET changed == [record EXCEPT !.fields[i].name = name] IN
         [ok |-> FALSE, record |-> changed,
          error |-> DuplicateKey(name, changed)]
    ELSE [ok |-> TRUE,
          record |-> [record EXCEPT !.fields = Append(@, Entry(name, value))],
          error |-> NoError]

\* Record::insert: Ok(()) with the field appended, or Err(DuplicateKey) that
\* carries the key of the occupied entry and a clone of the record.
Insert(record, name, value) ==
    LET i == EntryIndex(record.fields, name) IN
    IF i # None
    THEN [ok |-> FALSE, record |-> record,
          error |-> DuplicateKey(record.fields[i].name, record)]
    ELSE [ok |-> TRUE,
          record |-> [record EXCEPT !.fields = Append(@, Entry(name, value))],
          error |-> NoError]

\* Mutant of Get: the key is compared byte for byte.
Get_ExactCase(record, name) ==
    IF \E i \in 1..Len(record.fields) : record.fields[i].name = name
    THEN SomeDatum(record.fields[CHOOSE i \in 1..Len(record.fields) :
                                    record.fields[i].name = name].value)
    ELSE NoDatum

\* Record::get
Get(record, name) ==
    LET i == EntryIndex(record.fields, name) IN
    IF i = None THEN NoDatum ELSE SomeDatum(record.fields[i].value)

\* ------------------------------------------------------------- TagEncoder
OutputTypes == {"Always", "OnlyNonString", "Never"}

\* Decimal digits of n, zero-padded on the left to `width`.
RECURSIVE Pad(_, _)
Pad(n, width) ==
    IF width <= 1 THEN Itoa(n)
    ELSE IF Len(Itoa(n)) >= width THEN Itoa(n)
    ELSE <<"0">> \o Pad(n, width - 1)

RECURSIVE Pow10(_)
Pow10(n) == IF n = 0 THEN 1 ELSE 10 * Pow10(n - 1)

\* Decimal::to_string: sign, integer part, and `scale` fraction digits.
DecimalToString(m, e) ==
    LET a == IF m < 0 THEN 0 - m ELSE m
        whole == Itoa(a \div Pow10(e))
        frac  == IF e = 0 THEN <<>> ELSE <<".">> \o Pad(a % Pow10(e), e)
    IN (IF m < 0 THEN <<"-">> ELSE <<>>) \o whole \o frac

\* Mutant of FormatYear: the year is not padded to four digits.
FormatYear_Unpadded(y) ==
    IF y \in 0..9999 THEN Itoa(y)
    ELSE IF y > 9999 THEN <<"+">> \o Pad(y, 4)
    ELSE <<"-">> \o Pad(0 - y, 4)

\* %Y of chrono's format: four digits for the years 0 to 9999, and a sign
\* before the digits of any other year.
FormatYear(y) ==
    IF y \in 0..9999 THEN Pad(y, 4)
    ELSE IF y > 9999 THEN <<"+">> \o Pad(y, 4)
    ELSE <<"-">> \o Pad(0 - y, 4)

\* Datum::as_str
AsStr(datum) ==
    CASE datum.typ = "String"  -> datum.s
      [] datum.typ = "Boolean" -> IF datum.b THEN <<"Y">> ELSE <<"N">>
      [] datum.typ = "Number"  -> DecimalToString(datum.n[1], datum.n[2])
      [] datum.typ = "Date"    ->
            FormatYear(datum.n[1]) \o Pad(datum.n[2], 2) \o Pad(datum.n[3], 2)
      [] datum.typ = "Time"    ->
            Pad(datum.n[1], 2) \o Pad(datum.n[2], 2) \o Pad(datum.n[3], 2)
      [] datum.typ = "DateTime" ->
            FormatYear(datum.n[1]) \o Pad(datum.n[2], 2) \o Pad(datum.n[3], 2)
            \o <<" ">> \o
            Pad(datum.n[4], 2) \o Pad(datum.n[5], 2) \o Pad(datum.n[6], 2)

\* Datum::as_bool, as Option<Datum>
AsBool(datum) ==
    IF datum.typ = "Boolean" THEN SomeDatum(datum)
    ELSE IF datum.typ # "String" THEN NoDatum
    ELSE IF datum.s \in {<<"Y">>, <<"y">>} THEN SomeDatum(DBoolean(TRUE))
    ELSE IF datum.s \in {<<"N">>, <<"n">>} THEN SomeDatum(DBoolean(FALSE))
    ELSE NoDatum

\* Mutant of AsNumber: a String is not coerced.
AsNumber_TypedOnly(datum) ==
    IF datum.typ = "Number" THEN SomeDatum(datum) ELSE NoDatum

\* Datum::as_number
AsNumber(datum) ==
    IF datum.typ = "Number" THEN SomeDatum(datum)
    ELSE IF datum.typ = "String" THEN ParseDecimal(datum.s)
    ELSE NoDatum

\* Datum::as_date
AsDate(datum) ==
    IF datum.typ = "Date" THEN SomeDatum(datum)
    ELSE IF datum.typ = "String" THEN ParseDate(datum.s)
    ELSE NoDatum

\* Datum::as_time
AsTime(datum) ==
    IF datum.typ = "Time" THEN SomeDatum(datum)
    ELSE IF datum.typ = "String" THEN ParseTime(datum.s)
    ELSE NoDatum

\* NaiveDateTime::parse_from_str(v, "%Y%m%d %H%M%S"): the six numbers are
\* scanned in turn, each after any white space (the space of the format
\* matches any run of white space, an empty one too), nothing may follow.
RECURSIVE ScanFields(_, _, _)
ScanNext(r, widths, acc) ==
    IF ~r.ok THEN [ok |-> FALSE, v |-> acc]
    ELSE ScanFields(r.rest, Tail(widths), Append(acc, r.v))

ScanFields(s, widths, acc) ==
    IF widths = <<>> THEN [ok |-> s = <<>>, v |-> acc]
    ELSE ScanNext(ScanNumber(s, Head(widths)), widths, acc)

DateTimeOf(r) ==
    IF ~r.ok THEN NoDatum
    ELSE IF r.v[2] \notin 1..12 THEN NoDatum
    ELSE IF r.v[3] < 1 \/ r.v[3] > DaysInMonth(r.v[1], r.v[2]) THEN NoDatum
    ELSE IF r.v[4] > 23 \/ r.v[5] > 59 \/ r.v[6] > 60 THEN NoDatum
    ELSE SomeDatum(DDateTime(r.v[1], r.v[2], r.v[3], r.v[4], r.v[5], r.v[6]))

ParseDateTime(v) ==
    DateTimeOf(ScanNext(ScanYear(v), <<4, 2, 2, 2, 2, 2>>, <<>>))

\* Mutant of AsDateTime: a Date is taken for the midnight of its day.
AsDateTime_DateAtMidnight(datum) ==
    IF datum.typ = "DateTime" THEN SomeDatum(datum)
    ELSE IF datum.typ = "Date"
         THEN SomeDatum(DDateTime(datum.n[1], datum.n[2], datum.n[3], 0, 0, 0))
    ELSE IF datum.typ = "String" THEN ParseDateTime(datum.s)
    ELSE NoDatum

\* Datum::as_datetime
AsDateTime(datum) ==
    IF datum.typ = "DateTime" THEN SomeDatum(datum)
    ELSE IF datum.typ = "String" THEN ParseDateTime(datum.s)
    ELSE NoDatum

\* The error type_indicator returns for a DateTime: an InvalidFormat that
\* carries only a message.
DateTimeMessage ==
    <<"DateTime cannot be output directly; split into date and time fields">>

\* Option<&str> of a type indicator: the letter, or <<>> for None.
Indicator(typ) == [ok |-> TRUE, typ |-> typ, error |-> NoError]

\* TagEncoder::type_indicator: the type letter, <<>> for no indicator, or an
\* error for a DateTime.
TypeIndicator(types, datum) ==
    IF datum.typ = "DateTime"
    THEN [ok |-> FALSE, typ |-> <<>>,
          error |-> InvalidFormat(DateTimeMessage, NoPosition)]
    ELSE IF types = "Never" THEN Indicator(<<>>)
    ELSE IF datum.typ = "Boolean" THEN Indicator(<<"b">>)
    ELSE IF datum.typ = "Number" THEN Indicator(<<"n">>)
    ELSE IF datum.typ = "Date" THEN Indicator(<<"d">>)
    ELSE IF datum.typ = "Time" THEN Indicator(<<"t">>)
    ELSE IF types = "Always" THEN Indicator(<<"s">>)
    ELSE Indicator(<<>>)

\* TagEncoder::encode_field, lines 128-134: the bytes after the length.
EncodeFieldTail(head, str, ti) ==
    IF ~ti.ok THEN [ok |-> FALSE, dst |-> head, error |-> ti.error]
    ELSE [ok |-> TRUE,
          dst |-> head \o (IF ti.typ = <<>> THEN <<>> ELSE <<":">> \o ti.typ)
                       \o <<">">> \o str,
          error |-> NoError]

\* Mutant of EncodeFieldHead: the length counts characters, not bytes.
EncodeFieldHead_Chars(types, name, value, dst, str) ==
    EncodeFieldTail(dst \o <<"<">> \o name \o <<":">>
                        \o Itoa(Len(SelectSeq(str, LAMBDA b : b # "0xA9"))),
                    str, TypeIndicator(types, value))

\* TagEncoder::encode_field, lines 123-127: '<', the name, ':' and the
\* number of bytes of the value.
EncodeFieldHead(types, name, value, dst, str) ==
    EncodeFieldTail(dst \o <<"<">> \o name \o <<":">> \o Itoa(Len(str)),
                    str, TypeIndicator(types, value))

\* TagEncoder::encode_field: the destination buffer after the call, and
\* what the call returned.
EncodeField(types, name, value, dst) ==
    EncodeFieldHead(types, name, value, dst, AsStr(value))

\* TagEncoder::encode_eoh and encode_eor
EncodeEoh(dst) == dst \o <<"<","e","o","h",">","\n">>
EncodeEor(dst) == dst \o <<"<","e","o","r",">","\n">>

\* RecordSink::start_send: the fields in order, then the boundary tag; the
\* first failing field ends the call.
RECURSIVE SendFields(_, _, _)
RECURSIVE SendRest(_, _, _)
SendRest(types, fields, r) ==
    IF ~r.ok THEN r ELSE SendFields(types, fields, r.dst)

SendFields(types, fields, dst) ==
    IF fields = <<>> THEN [ok |-> TRUE, dst |-> dst, error |-> NoError]
    ELSE SendRest(types, Tail(fields),
                  EncodeField(types, fields[1].name, fields[1].value, dst))

\* Mutant of SendBoundary: every record ends with <eor>.
SendBoundary_AlwaysEor(header, r) ==
    IF ~r.ok THEN r
    ELSE [ok |-> TRUE, dst |-> EncodeEor(r.dst), error |-> NoError]

\* RecordSink::start_send, line 272: the boundary tag after the fields.
SendBoundary(header, r) ==
    IF ~r.ok THEN r
    ELSE [ok |-> TRUE,
          dst |-> IF header THEN EncodeEoh(r.dst) ELSE EncodeEor(r.dst),
          error |-> NoError]

StartSend(types, record, dst) ==
    SendBoundary(record.header, SendFields(types, record.fields, dst))

\* <TagEncoder as Encoder<Tag>>::encode
Encode(types, item, dst) ==
    IF item.tag = "Eoh" THEN [ok |-> TRUE, dst |-> EncodeEoh(dst), error |-> NoError]
    ELSE IF item.tag = "Eor"
         THEN [ok |-> TRUE, dst |-> EncodeEor(dst), error |-> NoError]
    ELSE EncodeField(types, item.name, item.value, dst)

\* The bytes a RecordSink writes for a list of records, all of which it
\* accepts.
RECURSIVE SinkOutput(_, _, _)
SinkOutput(types, records, dst) ==
    IF records = <<>> THEN dst
    ELSE SinkOutput(types, Tail(records), StartSend(types, records[1], dst).dst)

\* ----------------------------------------------------------- RecordStream
\* Items of the tag stream and of the record stream: Some(Ok(..)) or
\* Some(Err(..)).
OkTag(t)     == [ok |-> TRUE,  tag |-> t,   error |-> NoError]
ErrTag(e)    == [ok |-> FALSE, tag |-> Eof, error |-> e]
OkRecord(r)  == [ok |-> TRUE,  record |-> r,        error |-> NoError]
ErrRecord(e) == [ok |-> FALSE, record |-> NoRecord, error |-> e]

\* Mutant of Make: the accumulator is cloned, not taken, and keeps its
\* fields.
Make_NoReset(record, header) ==
    [record |-> record, out |-> <<OkRecord([record EXCEPT !.header = header])>>]

\* Mutant of Make: the record handed out keeps the flag the accumulator was
\* created with; the boundary tag does not set it.
Make_KeepFlag(record, header) ==
    [record |-> NewRecord, out |-> <<OkRecord(record)>>]

\* RecordStream::make: the record handed out and the accumulator left behind
\* by mem::take.
Make(record, header) ==
    [record |-> NewRecord, out |-> <<OkRecord([record EXCEPT !.header = header])>>]

\* Mutant of Inserted: a failed insert is reported and the accumulator is
\* discarded with it.
Inserted_DiscardOnError(r) ==
    IF r.ok THEN [record |-> r.record, out |-> <<>>]
    ELSE [record |-> NewRecord, out |-> <<ErrRecord(r.error)>>]

\* Mutant of Inserted: a failed insert is not reported; the loop goes round
\* again.
Inserted_Swallow(r) == [record |-> r.record, out |-> <<>>]

\* RecordStream::poll_next, the Field arm: what the insert returned.
Inserted(r) ==
    IF r.ok THEN [record |-> r.record, out |-> <<>>]
    ELSE [record |-> r.record, out |-> <<ErrRecord(r.error)>>]

\* Mutant of PollNext: an error of the tag stream is passed on, but the
\* accumulator is reset as at a boundary tag.
PollNext_ResetOnError(record, item) ==
    IF ~item.ok THEN [record |-> NewRecord, out |-> <<ErrRecord(item.error)>>]
    ELSE IF item.tag.tag = "Eoh" THEN Make(record, TRUE)
    ELSE IF item.tag.tag = "Eor" THEN Make(record, FALSE)
    ELSE Inserted(Insert(record, item.tag.name, item.tag.value))

\* One turn of the loop of RecordStream::poll_next on an item of the tag
\* stream: the accumulator afterwards and the items returned (none when the
\* loop goes round again).
PollNext(record, item) ==
    IF ~item.ok THEN [record |-> record, out |-> <<ErrRecord(item.error)>>]
    ELSE IF item.tag.tag = "Eoh" THEN Make(record, TRUE)
    ELSE IF item.tag.tag = "Eor" THEN Make(record, FALSE)
    ELSE Inserted(Insert(record, item.tag.name, item.tag.value))

\* ---------------------------------------------------------------- inputs
\* Fields and records the sink is given.
FieldA == Entry(<<"a">>, DString(<<"x">>))
FieldB == Entry(<<"B">>, DBoolean(TRUE))
FieldC == Entry(<<"c">>, DString(<<" ", "<">>))

SampleRecords ==
    { [header |-> h, fields |-> f] :
        h \in BOOLEAN, f \in {<<>>, <<FieldA, FieldB>>, <<FieldC>>} }

RecordLists ==
    UNION { [1..n -> SampleRecords] : n \in 0..MaxRecords }

\* Valid streams: every output of a RecordSink for the sample records.
ValidStreams ==
    { SinkOutput(t, l, <<>>) : t \in OutputTypes, l \in RecordLists }

\* Pieces of streams that no sink writes: upper-case markers, text outside
\* tags, the vendor end-of-file tag, malformed and oversized tags, a
\* duplicated field name.
Pieces ==
    { <<>>,
      <<"<","E","o","R",">">>,
      <<"<","e","o","h",">"," ","\n">>,
      <<"<","a",":","1",">","x">>,
      <<"<","A",":","2",":","n",">","1","5","\n">>,
      <<"x"," ">>,
      <<"\n">>,
      <<"<","a","p","p","_","l","o","t","w","_","e","o","f",">">>,
      <<"<","A","P","P","_","L","o","T","W","_","E","O","F",">","\n">>,
      <<"<","b","a","d",">">>,
      <<"<","b",":","1",":","b",">","q">>,
      <<"<","c",":","1",">","0xFF">>,
      <<"<","d",":">> \o Itoa(UsizeMax) \o <<">">>,
      <<"<","d",":">> \o Itoa(UsizeMax - 2) \o <<">","x">> }

OtherStreams == { p \o q : p \in Pieces, q \in Pieces }

\* The stream of the duplicate_field test with the first name in upper case,
\* and a stream whose third field repeats the first in another case, before
\* a header boundary.
DuplicateCall == <<"<","C","A","L","L",":","4",">","W","1","A","W","<","c","a","l","l",":","5",">","A","B","9","B","H","<","e","o","r",">">>
DuplicateThird == <<"<","a",":","1",">","x","<","b",":","1",":","b",">","Y","<","A",":","1",">","z","<","e","o","h",">">>
\* A stream whose second field repeats the first in another case and whose
\* third field is new, before a record boundary.
DuplicateThenMore == <<"<","a",":","1",">","x","<","A",":","1",">","z","<","b",":","1",">","y","<","e","o","r",">">>
ExampleStreams == { DuplicateCall, DuplicateThird, DuplicateThenMore }

Inputs == ValidStreams \cup OtherStreams \cup ExampleStreams

\* ------------------------------------------------------------------ state
VARIABLES
    input,            \* the bytes the reader holds
    ignore_partial,   \* TagDecoder.ignore_partial
    pos,              \* bytes the reader has delivered (TrickleReader.pos)
    src,              \* the read buffer of the FramedRead (BytesMut)
    decoder,          \* TagDecoder.consumed, .line, .column
    is_readable,      \* FramedRead: the buffer may hold a frame
    eof,              \* FramedRead: the reader has returned 0 bytes
    has_errored,      \* FramedRead: the decoder has returned an error
    tags,             \* items the tag stream has yielded, in order
    record,           \* RecordStream.record, the accumulator
    records,          \* items the record stream has yielded, in order
    ended,            \* the streams have returned None
    panicked,         \* a decode call has panicked
    eof_tag_at,       \* Len(tags) when <app_lotw_eof> was decoded, or None
    rec,              \* a Record in the hands of a caller of Record::insert
    calls,            \* the (name, value) arguments of the insert calls on rec
    result,           \* what the last insert call on rec returned
    err_record,       \* the record carried by the last DuplicateKey error
    sink,             \* which sink writes: "TagSink", "RecordSink" or "none"
    types,            \* TagEncoder.types
    dst,              \* the write buffer of the FramedWrite
    sent,             \* the items given to the sink, in order
    sink_results,     \* what start_send returned for each of them
    datum,            \* a Datum in the hands of a caller
    accessed,         \* what the accessors called on it returned, in order
    cabrillo,         \* CabrilloEncoder.fields and .started
    writer,           \* what the FramedWrite has written to its AsyncWrite
    adapter,          \* a Filter or Normalize: its closure and its stream
    yielded           \* the items the adapter has yielded, in order

stream_vars == <<input, ignore_partial, pos, src, decoder, is_readable, eof,
                 has_errored, tags, record, records, ended, panicked,
                 eof_tag_at>>
record_vars == <<rec, calls, result, err_record>>
sink_vars == <<sink, types, dst, sent, sink_results>>
datum_vars == <<datum, accessed>>
cabrillo_vars == <<cabrillo, writer>>
filter_vars == <<adapter, yielded>>
vars == <<stream_vars, record_vars, sink_vars, datum_vars, cabrillo_vars,
          filter_vars>>

\* No caller holds a datum, and no Cabrillo sink has been made.
NoCaller ==
    /\ datum = DString(<<>>)
    /\ accessed = <<>>

\* The AsyncWrite of a Cabrillo sink: the bytes it has taken, how often it
\* has answered Pending to a close, whether a close is under way, and
\* whether it has been shut down.
NewWriter == [out |-> <<>>, pending |-> 0, closing |-> FALSE,
              shutdown |-> FALSE]

NoCabrillo ==
    /\ cabrillo = [fields |-> <<>>, started |-> FALSE]
    /\ writer = NewWriter

\* No stream adapter has been made.
NoAdapter ==
    /\ adapter = [f |-> "none", stream |-> <<>>, taken |-> 0, done |-> FALSE]
    /\ yielded = <<>>

\* No sink: the reader's bytes are given.
NoSink ==
    /\ sink = "none"
    /\ types = "Never"
    /\ dst = <<>>
    /\ sent = <<>>
    /\ sink_results = <<>>

\* Result<(), Error> of Record::insert, and the value before any call.
NoResult == [ok |-> TRUE, record |-> NewRecord, error |-> NoError]

\* TagDecoder::new_stream(reader, ignore_partial).records()
Init ==
    /\ NoCaller
    /\ NoCabrillo
    /\ NoAdapter
    /\ input \in Inputs
    /\ ignore_partial \in BOOLEAN
    /\ pos = 0
    /\ src = <<>>
    /\ decoder = NewDecoder
    /\ is_readable = FALSE
    /\ eof = FALSE
    /\ has_errored = FALSE
    /\ tags = <<>>
    /\ record = NewRecord
    /\ records = <<>>
    /\ ended = FALSE
    /\ panicked = FALSE
    /\ eof_tag_at = None
    /\ rec = NewRecord
    /\ calls = <<>>
    /\ result = NoResult
    /\ err_record = NoRecord
    /\ NoSink

Running == ~ended /\ ~panicked

\* The tag stream yields `item`: RecordStream::poll_next takes it.
Polled(item, r) ==
    /\ tags' = Append(tags, item)
    /\ record' = r.record
    /\ records' = records \o r.out

Yield(item) == Polled(item, PollNext(record, item))

\* The decode call on this buffer meets the vendor end-of-file tag.
IsEofTag(r) == r.res.kind = "Some" /\ r.res.tag.tag = "Eof"

SeesEofTag(d, buf, overflow_checks) ==
    IsEofTag(DecodeInner(d, buf, overflow_checks))

\* What a decode call's outcome does to the FramedRead and the streams.
Frame(r, at_eof) ==
    /\ decoder' = r.d
    /\ src' = r.src
    /\ UNCHANGED <<input, ignore_partial, pos, eof, record_vars, sink_vars,
                   datum_vars, cabrillo_vars,
                   filter_vars>>
    /\ CASE r.res.kind = "Some" ->
              /\ Yield(OkTag(r.res.tag))
              /\ UNCHANGED <<is_readable, has_errored, ended, panicked>>
         [] r.res.kind = "Err" ->
              /\ Yield(ErrTag(r.res.error))
              /\ has_errored' = TRUE
              /\ UNCHANGED <<is_readable, ended, panicked>>
         [] r.res.kind = "None" ->
              /\ is_readable' = FALSE
              /\ ended' = at_eof
              /\ UNCHANGED <<tags, record, records, has_errored, panicked>>
         [] r.res.kind = "Panic" ->
              /\ panicked' = TRUE
              /\ UNCHANGED <<tags, record, records, is_readable, has_errored,
                             ended>>

\* Mutant of DecodeStep: before the end of input too, a strict decoder
\* reports what it cannot decode yet as partial data.
DecodeStep_PolicyBeforeEof ==
    /\ Running /\ ~has_errored /\ is_readable /\ ~eof
    /\ \E overflow_checks \in BOOLEAN :
          /\ Frame(DecodeWith(decoder, src, ~ignore_partial, overflow_checks),
                   FALSE)
          /\ eof_tag_at' = IF SeesEofTag(decoder, src, overflow_checks)
                           THEN Len(tags) ELSE eof_tag_at

\* FramedRead::poll_next, buffer readable, before end of input: decode.  The
\* build decides what an overflowing addition does.
DecodeStep ==
    /\ Running /\ ~has_errored /\ is_readable /\ ~eof
    /\ \E overflow_checks \in BOOLEAN :
          /\ Frame(Decode(decoder, src, overflow_checks), FALSE)
          /\ eof_tag_at' = IF SeesEofTag(decoder, src, overflow_checks)
                           THEN Len(tags) ELSE eof_tag_at

\* FramedRead::poll_next, buffer readable, at end of input: decode_eof.
DecodeEofStep ==
    /\ Running /\ ~has_errored /\ is_readable /\ eof
    /\ \E overflow_checks \in BOOLEAN :
          /\ Frame(DecodeEof(decoder, src, ignore_partial, overflow_checks),
                   TRUE)
          /\ eof_tag_at' = IF SeesEofTag(decoder, src, overflow_checks)
                           THEN Len(tags) ELSE eof_tag_at

\* FramedRead::poll_next after an error: the stream ends.
ErrorEnd ==
    /\ Running /\ has_errored
    /\ has_errored' = FALSE
    /\ is_readable' = FALSE
    /\ ended' = TRUE
    /\ UNCHANGED <<input, ignore_partial, pos, src, decoder, eof, tags,
                   record, records, panicked, eof_tag_at, record_vars,
                   sink_vars, datum_vars,
                   cabrillo_vars,
                   filter_vars>>

\* The reader delivers the next n bytes.
ReadChunk ==
    /\ Running /\ ~has_errored /\ ~is_readable /\ ~eof
    /\ \E n \in 1..(Len(input) - pos) :
          /\ src' = src \o Slice(input, pos, pos + n)
          /\ pos' = pos + n
    /\ is_readable' = TRUE
    /\ UNCHANGED <<input, ignore_partial, decoder, eof, has_errored, tags,
                   record, records, ended, panicked, eof_tag_at, record_vars,
                   sink_vars, datum_vars,
                   cabrillo_vars,
                   filter_vars>>

\* The reader returns no bytes: the input ends at pos (a stream cut short
\* when pos is not yet the length of the input).
ReadEnd ==
    /\ Running /\ ~has_errored /\ ~is_readable /\ ~eof
    /\ eof' = TRUE
    /\ is_readable' = TRUE
    /\ UNCHANGED <<input, ignore_partial, pos, src, decoder, has_errored,
                   tags, record, records, ended, panicked, eof_tag_at,
                   record_vars, sink_vars,
                   datum_vars, cabrillo_vars,
                   filter_vars>>

Next ==
    \/ DecodeStep
    \/ DecodeEofStep
    \/ ErrorEnd
    \/ ReadChunk
    \/ ReadEnd

Spec == Init /\ [][Next]_vars

\* ----------------------------------------------------- one-shot reference
\* The items a tag stream yields when the reader delivers `bytes` in a single
\* chunk: FramedRead calls decode until it returns None, the reader then
\* returns 0 bytes, and decode_eof is called until it returns None; an error
\* ends the stream.
RECURSIVE Drain(_, _, _, _, _, _)
RECURSIVE DrainResult(_, _, _, _, _)
DrainResult(r, at_eof, ip, overflow_checks, acc) ==
    CASE r.res.kind = "Some" ->
              Drain(r.d, r.src, at_eof, ip, overflow_checks,
                    Append(acc, OkTag(r.res.tag)))
      [] r.res.kind = "Err" ->
              [tags |-> Append(acc, ErrTag(r.res.error)), stop |-> TRUE,
               d |-> r.d, src |-> r.src]
      [] r.res.kind = "Panic" ->
              [tags |-> acc, stop |-> TRUE, d |-> r.d, src |-> r.src]
      [] r.res.kind = "None" ->
              [tags |-> acc, stop |-> FALSE, d |-> r.d, src |-> r.src]

Drain(d, buf, at_eof, ip, overflow_checks, acc) ==
    DrainResult(DecodeWith(d, buf, at_eof /\ ~ip, overflow_checks),
                at_eof, ip, overflow_checks, acc)

OneShotAtEof(a, ip, overflow_checks) ==
    IF a.stop THEN a.tags
    ELSE Drain(a.d, a.src, TRUE, ip, overflow_checks, a.tags).tags

OneShotTags(bytes, ip, overflow_checks) ==
    OneShotAtEof(Drain(NewDecoder, bytes, FALSE, ip, overflow_checks, <<>>),
                 ip, overflow_checks)

\* The items a RecordStream yields for the items of a tag stream.
RECURSIVE Aggregate(_, _)
RECURSIVE AggregateNext(_, _)
AggregateNext(r, items) == r.out \o Aggregate(r.record, items)

Aggregate(acc, items) ==
    IF items = <<>> THEN <<>>
    ELSE AggregateNext(PollNext(acc, items[1]), Tail(items))

\* ------------------------------------------------------ shared predicates
\* The logical stream: the bytes the reader has delivered.
Delivered == Slice(input, 0, pos)

IsPartialDataError(item) ==
    ~item.ok /\ item.error.err = "InvalidFormat"
             /\ item.error.message = PartialData

ErrorCount(items) == Cardinality({ i \in 1..Len(items) : ~items[i].ok })

AllWhitespace(s) == \A i \in 1..Len(s) : IsAsciiWhitespace(s[i])

Count(s, c) == Cardinality({ i \in 1..Len(s) : s[i] = c })

\* ------------------------------------------------------------------ claims
\* C1 (as claimed): chunking invariance.  When a valid stream has been
\* delivered in any chunks and the streams have ended, the tag stream has
\* yielded the same items (tags, errors, positions) and the record stream
\* the same records as for the whole stream in one chunk, under both
\* policies.
C1_ChunkingInvariance ==
    (ended /\ Delivered \in ValidStreams) =>
        /\ tags = OneShotTags(Delivered, ignore_partial, FALSE)
        /\ records = Aggregate(NewRecord,
                               OneShotTags(Delivered, ignore_partial, FALSE))

\* C2 (as claimed): when the bytes after the last complete tag are all ASCII
\* whitespace, the strict decoder ends without a partial-data error,
\* whatever the chunk boundaries.
C2_TrailingWhitespaceNoError ==
    (ended /\ ~ignore_partial /\ AllWhitespace(src)
       /\ \E i \in 1..Len(tags) : tags[i].ok) =>
        \A i \in 1..Len(tags) : ~IsPartialDataError(tags[i])

\* C3: end-of-stream policy.  A decoder that ignores partial data never
\* yields the partial-data error.  When the strict decoder's stream has ended
\* at the end of the input without a malformed-tag error, it has yielded the
\* partial-data error exactly if bytes remain in the buffer; that error is
\* the only error and the last item, and its position is the offset, line
\* and column of the first remaining byte.  With an empty buffer neither
\* policy yields it.
C3_EndOfStreamPolicy ==
    LET n == Len(tags)
        partial == { i \in 1..n : IsPartialDataError(tags[i]) }
        malformed == { i \in 1..n : ~tags[i].ok /\ ~IsPartialDataError(tags[i]) }
    IN /\ ignore_partial => partial = {}
       /\ partial \subseteq {n}
       /\ partial # {} =>
            /\ ErrorCount(tags) = 1
            /\ eof /\ src # <<>>
            /\ tags[n].error.position.byte = pos - Len(src)
            /\ tags[n].error.position = Position(decoder)
       /\ (ended /\ eof /\ ~ignore_partial /\ malformed = {}) =>
            (partial # {} <=> src # <<>>)
       /\ (ended /\ src = <<>>) => partial = {}

\* C3 witness: the strict decoder has ended with the partial-data error after
\* yielding a tag, bytes remaining.
C3_Witness ==
    /\ ended /\ ~ignore_partial /\ Len(tags) = 2 /\ tags[1].ok
    /\ IsPartialDataError(tags[2]) /\ Len(src) > 1

\* C4 (as claimed): once <app_lotw_eof> has been decoded the tag stream
\* yields nothing more, neither a tag nor an error, under both policies and
\* whatever chunks the later bytes arrive in.
C4_NothingAfterEofTag ==
    eof_tag_at # None => Len(tags) = eof_tag_at

\* The decoder's position is that of the first byte of the buffer in the
\* logical stream: byte offset, line and column.
PositionAccounting ==
    LET done == Slice(input, 0, decoder.consumed)
        lastNl == IF Count(done, "\n") = 0 THEN 0
                  ELSE CHOOSE i \in 1..Len(done) :
                           done[i] = "\n" /\ \A j \in (i+1)..Len(done) : done[j] # "\n"
    IN /\ decoder.consumed = pos - Len(src)
       /\ src = Slice(input, decoder.consumed, pos)
       /\ decoder.line = 1 + Count(done, "\n")
       /\ decoder.column = 1 + (Len(done) - lastNl)

\* C5 (as claimed): position accounting, and with it every position carried
\* by an error is the same for every chunking: the errors of the tag stream
\* are those of the one-shot run of the delivered stream.
C5_PositionsChunkIndependent ==
    /\ PositionAccounting
    /\ (ended /\ ~panicked) =>
          SelectSeq(tags, LAMBDA it : ~it.ok)
            = SelectSeq(OneShotTags(Delivered, ignore_partial, FALSE),
                        LAMBDA it : ~it.ok)

\* C6 (as claimed): truncation.  A valid stream cut at any offset and decoded
\* by the strict decoder ends cleanly or with exactly one error, the last
\* item, an InvalidFormat whose byte offset is that of a '<' of the stream.
C6_TruncationErrorAtTagStart ==
    (ended /\ ~ignore_partial /\ input \in ValidStreams) =>
        \/ ErrorCount(tags) = 0
        \/ /\ ErrorCount(tags) = 1
           /\ ~tags[Len(tags)].ok
           /\ tags[Len(tags)].error.err = "InvalidFormat"
           /\ tags[Len(tags)].error.position.byte < Len(input)
           /\ input[tags[Len(tags)].error.position.byte + 1] = "<"

\* C7 (as claimed): no decode call panics, whatever the bytes in the buffer
\* and whatever length a field tag declares.
C7_NeverPanics == ~panicked

\* ------------------------------------------------- Record API, standalone
\* Names and values a caller passes to Record::insert.
InsertNames == { <<"a">>, <<"A">>, <<"b">>, <<"a","b">> }
InsertValues == { DString(<<"x">>), DBoolean(TRUE) }
FreshName == <<"z">>

\* Record::new() or Record::new_header() in the hands of a caller.
InitRecord ==
    /\ NoCaller
    /\ NoCabrillo
    /\ NoAdapter
    /\ input = <<>>
    /\ ignore_partial = FALSE
    /\ pos = 0
    /\ src = <<>>
    /\ decoder = NewDecoder
    /\ is_readable = FALSE
    /\ eof = FALSE
    /\ has_errored = FALSE
    /\ tags = <<>>
    /\ record = NewRecord
    /\ records = <<>>
    /\ ended = FALSE
    /\ panicked = FALSE
    /\ eof_tag_at = None
    /\ rec \in {NewRecord, NewHeader}
    /\ calls = <<>>
    /\ result = NoResult
    /\ err_record = NoRecord
    /\ NoSink

\* rec.insert(name, value); an error's record goes to the caller.
InsertCall ==
    /\ Len(calls) < MaxInserts
    /\ \E name \in InsertNames, value \in InsertValues :
          LET r == Insert(rec, name, value) IN
          /\ rec' = r.record
          /\ result' = [r EXCEPT !.record = NewRecord]
          /\ calls' = Append(calls, Entry(name, value))
          /\ err_record' = IF r.ok THEN err_record ELSE r.error.record
    /\ UNCHANGED <<stream_vars, sink_vars, datum_vars,
                   cabrillo_vars,
                   filter_vars>>

\* The caller inserts a fresh field into the record an error carried.
InsertIntoErrorRecord ==
    /\ ~result.ok
    /\ EntryIndex(err_record.fields, FreshName) = None
    /\ \E value \in InsertValues :
          err_record' = Insert(err_record, FreshName, value).record
    /\ UNCHANGED <<rec, calls, result, stream_vars, sink_vars, datum_vars,
                   cabrillo_vars,
                   filter_vars>>

NextRecord ==
    \/ InsertCall
    \/ InsertIntoErrorRecord

SpecRecord == InitRecord /\ [][NextRecord]_vars

\* The calls whose name no earlier call had, ignoring ASCII case, in order.
RECURSIVE FirstOccurrences(_)
FirstOccurrences(cs) ==
    IF cs = <<>> THEN <<>>
    ELSE LET n == Len(cs)
             before == FirstOccurrences(SubSeq(cs, 1, n - 1))
         IN IF \E j \in 1..(n - 1) : EqIgnoreAsciiCase(cs[j].name, cs[n].name)
            THEN before ELSE Append(before, cs[n])

\* C8: record invariant.  After any sequence of insert calls no two fields
\* have names equal ignoring ASCII case, the fields are the first call of
\* each name in call order, with the name and value of that call; and no
\* step changes or removes a field already present.
C8_RecordInvariant ==
    /\ [](/\ \A i, j \in 1..Len(rec.fields) :
               EqIgnoreAsciiCase(rec.fields[i].name, rec.fields[j].name)
                   => i = j
          /\ rec.fields = FirstOccurrences(calls))
    /\ [][/\ Len(rec'.fields) >= Len(rec.fields)
          /\ \A i \in 1..Len(rec.fields) : rec'.fields[i] = rec.fields[i]]_vars

\* C8 witness: a record of three fields after four calls, one of them
\* rejected.
C8_Witness ==
    /\ Len(calls) = 4 /\ Len(rec.fields) = 3 /\ ~result.ok

IsBoundary(item) == item.ok /\ item.tag.tag \in {"Eoh", "Eor"}

\* Index in `items` of the k-th boundary tag; 0 for k = 0.
BoundaryAt(items, k) ==
    IF k = 0 THEN 0
    ELSE CHOOSE i \in 1..Len(items) :
            /\ IsBoundary(items[i])
            /\ Cardinality({ j \in 1..i : IsBoundary(items[j]) }) = k

\* The Field tags at indexes lo+1 .. hi-1 of `items`, as record entries.
RECURSIVE FieldsBetween(_, _, _)
FieldsBetween(items, lo, hi) ==
    IF lo + 1 >= hi THEN <<>>
    ELSE <<Entry(items[lo + 1].tag.name, items[lo + 1].tag.value)>>
            \o FieldsBetween(items, lo + 1, hi)

\* C10: record aggregation.  While neither stream has yielded an error, the
\* record stream has yielded one record per boundary tag, the k-th holding
\* exactly the Field tags between the (k-1)-th and the k-th boundary tag in
\* input order, and the accumulator holds exactly the Field tags after the
\* last boundary tag (none right after an emission).
C10_RecordAggregation ==
    LET nb == Cardinality({ i \in 1..Len(tags) : IsBoundary(tags[i]) }) IN
    (ErrorCount(tags) = 0 /\ ErrorCount(records) = 0) =>
        /\ Len(records) = nb
        /\ \A k \in 1..nb :
              records[k].record.fields =
                  FieldsBetween(tags, BoundaryAt(tags, k - 1), BoundaryAt(tags, k))
        /\ record.fields = FieldsBetween(tags, BoundaryAt(tags, nb), Len(tags) + 1)

\* C10 witness: two records have been emitted, the first with two fields
\* and the second with one, and the accumulator is empty again.
C10_Witness ==
    /\ ErrorCount(tags) = 0 /\ ErrorCount(records) = 0
    /\ Len(records) = 2
    /\ Len(records[1].record.fields) = 2
    /\ Len(records[2].record.fields) = 1
    /\ record.fields = <<>>

\* ------------------------------------------------------------ header flag
\* A program that either reads a record stream or builds a Record through
\* its public API: the stream runs while no insert call has been made, the
\* caller's record is built while no stream has been started.
InitHeader == Init \/ InitRecord

StreamStep ==
    /\ calls = <<>> /\ rec = NewRecord
    /\ Next

RecordStep ==
    /\ input = <<>> /\ ~ignore_partial /\ ~eof
    /\ NextRecord

NextHeader ==
    \/ StreamStep
    \/ RecordStep

SpecHeader == InitHeader /\ [][NextHeader]_vars

\* A name in lower case: names that are equal ignoring ASCII case have the
\* same image.
ToAsciiLowercaseName(name) ==
    [i \in 1..Len(name) |-> ToAsciiLowercase(name[i])]

\* The records among the items of the record stream, and the boundary tags
\* among the items of the tag stream.
IsOkItem(item) == item.ok

EmittedRecords == SelectSeq(records, IsOkItem)

BoundaryTags == SelectSeq(tags, IsBoundary)

\* C11: header flag.  The record stream has emitted one record per boundary
\* tag, and the k-th emitted record is a header exactly if the k-th boundary
\* tag is <eoh>, whatever items came before it; and no insert call, on a
\* record or on the record an error carried, changes a record's header flag.
C11_HeaderFlag ==
    /\ [](/\ Len(EmittedRecords) = Len(BoundaryTags)
          /\ \A k \in 1..Len(EmittedRecords) :
                EmittedRecords[k].record.header
                    <=> (BoundaryTags[k].tag.tag = "Eoh")
          /\ ~result.ok => err_record.header = rec.header)
    /\ [][/\ rec'.header = rec.header
          /\ (calls' = calls /\ ~result.ok)
                => err_record'.header = err_record.header]_vars

\* C11 witness: a header has been emitted after a duplicate-key error and
\* after a normal record or another header.
C11_Witness ==
    \/ /\ Len(records) = 2
       /\ ~records[1].ok /\ records[1].error.err = "DuplicateKey"
       /\ records[2].ok /\ records[2].record.header
       /\ Len(records[2].record.fields) = 2
    \/ /\ Len(records) = 2
       /\ records[1].ok /\ records[2].ok /\ records[2].record.header
       /\ records[2].record.fields # <<>>

\* ------------------------------------------------- errors of the streams
\* The step yields one more item of the tag stream.
YieldsTag == Len(tags') = Len(tags) + 1

C13_KeyIsRejectedSpelling ==
    /\ [](\A k \in 1..Len(records) :
             (input = DuplicateCall /\ ~records[k].ok
                /\ records[k].error.err = "DuplicateKey")
                => records[k].error.key = <<"c","a","l","l">>)
    /\ [][(/\ YieldsTag
           /\ Len(records') = Len(records) + 1
           /\ ~records'[Len(records')].ok
           /\ records'[Len(records')].error.err = "DuplicateKey")
          => records'[Len(records')].error.key
                = tags'[Len(tags')].tag.name]_vars

\* C14: tokenizer error pass-through.  When the tag stream yields an error,
\* the record stream yields that same error in the same step, and the
\* accumulator is exactly as it was.
C14_TagErrorPassThrough ==
    [][(YieldsTag /\ ~tags'[Len(tags')].ok)
       => /\ Len(records') = Len(records) + 1
          /\ SubSeq(records', 1, Len(records)) = records
          /\ ~records'[Len(records')].ok
          /\ records'[Len(records')].error = tags'[Len(tags')].error
          /\ record' = record]_vars

\* C14 witness: the tag stream has yielded an error while the accumulator
\* held a field; the record stream has yielded that error and the
\* accumulator still holds the field.
C14_Witness ==
    /\ tags # <<>> /\ ~tags[Len(tags)].ok
    /\ records # <<>> /\ ~records[Len(records)].ok
    /\ records[Len(records)].error = tags[Len(tags)].error
    /\ record.fields # <<>>

\* -------------------------------------------------------------- round trip
\* Largest number of records written and read back.
MaxSent == 2

\* Fields of the typed kinds, and a name with a colon as the filters make.
FieldN == Entry(<<"n">>, DNumber(15, 1))
FieldD == Entry(<<"d">>, DDate(2024, 2, 29))
FieldT == Entry(<<"t">>, DTime(9, 5, 0))
FieldColon == Entry(<<":","a">>, DString(<<"x">>))

\* Records without a DateTime field that a caller gives to the sink.
RoundTripRecords ==
    { [header |-> TRUE,  fields |-> <<FieldA>>],
      [header |-> FALSE, fields |-> <<FieldB, FieldN, FieldD, FieldT>>],
      [header |-> FALSE, fields |-> <<FieldC>>],
      [header |-> FALSE, fields |-> <<FieldColon>>] }

RoundTripLists ==
    UNION { [1..n -> RoundTripRecords] : n \in 0..MaxSent }

\* The sink has written the records of a list and has been closed; a
\* RecordStream is made on the bytes it wrote.
InitRoundTrip ==
    /\ NoCaller
    /\ NoCabrillo
    /\ NoAdapter
    /\ sink = "RecordSink"
    /\ types \in OutputTypes
    /\ sent \in RoundTripLists
    /\ dst = SinkOutput(types, sent, <<>>)
    /\ sink_results = [k \in 1..Len(sent) |-> NoError]
    /\ input = dst
    /\ ignore_partial \in BOOLEAN
    /\ pos = 0
    /\ src = <<>>
    /\ decoder = NewDecoder
    /\ is_readable = FALSE
    /\ eof = FALSE
    /\ has_errored = FALSE
    /\ tags = <<>>
    /\ record = NewRecord
    /\ records = <<>>
    /\ ended = FALSE
    /\ panicked = FALSE
    /\ eof_tag_at = None
    /\ rec = NewRecord
    /\ calls = <<>>
    /\ result = NoResult
    /\ err_record = NoRecord

SpecRoundTrip == InitRoundTrip /\ [][Next]_vars

\* The stream has ended after the reader delivered every byte.
ReadToEnd == ended /\ pos = Len(input)

\* C15 (as claimed): typed round trip.  When records without DateTime
\* fields, whatever their field names, have been written under Always or
\* OnlyNonString and the bytes have been decoded to the end, the record
\* stream has yielded exactly the original records, in order, and nothing
\* else before the end of the stream.
C15_TypedRoundTrip ==
    (ReadToEnd /\ types \in {"Always", "OnlyNonString"} /\ input = dst) =>
        records = [k \in 1..Len(sent) |-> OkRecord(sent[k])]

\* A name of letters, digits and underscores.
IsIdentName(name) ==
    \A i \in 1..Len(name) :
        \/ IsDigit(name[i])
        \/ name[i] = "_"
        \/ \E j \in 1..26 : name[i] \in {Upper[j], Lower[j]}

HasIdentNames(r) == \A i \in 1..Len(r.fields) : IsIdentName(r.fields[i].name)

\* Decimal equality: the same number, whatever the scale.
DecimalEq(a, b) == a.n[1] * Pow10(b.n[2]) = b.n[1] * Pow10(a.n[2])

\* The accessor that matches the original variant returns the original
\* value for the decoded datum.
CoercesTo(parsed, original) ==
    CASE original.typ = "String"  -> AsStr(parsed) = original.s
      [] original.typ = "Boolean" -> AsBool(parsed) = SomeDatum(original)
      [] original.typ = "Number"  ->
            /\ AsNumber(parsed).ok
            /\ DecimalEq(AsNumber(parsed).datum, original)
      [] original.typ = "Date"    -> AsDate(parsed) = SomeDatum(original)
      [] original.typ = "Time"    -> AsTime(parsed) = SomeDatum(original)
      [] original.typ = "DateTime" -> FALSE

RECURSIVE FieldTexts(_, _)
FieldTexts(policy, fields) ==
    IF fields = <<>> THEN <<>>
    ELSE <<EncodeField(policy, fields[1].name, fields[1].value, <<>>).dst>>
            \o FieldTexts(policy, Tail(fields))

RecordTexts(policy, r) ==
    Append(FieldTexts(policy, r.fields),
           IF r.header THEN EncodeEoh(<<>>) ELSE EncodeEor(<<>>))

RECURSIVE TagTexts(_, _)
TagTexts(policy, rs) ==
    IF rs = <<>> THEN <<>>
    ELSE RecordTexts(policy, rs[1]) \o TagTexts(policy, Tail(rs))

\* The runs of space, tab and newline put before a tag; <<>> for none.
WhitespaceRuns == { <<>>, <<" ">>, <<"\n", "\t">> }

\* The sink's output with the run gaps[i] put before the '<' of the i-th
\* tag.
RECURSIVE Interleave(_, _)
Interleave(gaps, texts) ==
    IF texts = <<>> THEN <<>>
    ELSE gaps[1] \o texts[1] \o Interleave(Tail(gaps), Tail(texts))

\* Records whose streams get whitespace put in; one value holds a space and
\* a '<'.
WhitespaceRecords ==
    { [header |-> TRUE,  fields |-> <<FieldA>>],
      [header |-> FALSE, fields |-> <<FieldC>>] }

WhitespaceLists ==
    UNION { [1..n -> WhitespaceRecords] : n \in 0..MaxSent }

\* The sink has written the records of a list, runs of whitespace have been
\* put before some of the tags, and a RecordStream is made on the result.
InitWhitespace ==
    /\ NoCaller
    /\ NoCabrillo
    /\ NoAdapter
    /\ sink = "RecordSink"
    /\ types \in OutputTypes
    /\ sent \in WhitespaceLists
    /\ dst = SinkOutput(types, sent, <<>>)
    /\ sink_results = [k \in 1..Len(sent) |-> NoError]
    /\ input \in { Interleave(gaps, TagTexts(types, sent)) :
                     gaps \in [1..Len(TagTexts(types, sent)) -> WhitespaceRuns] }
    /\ ignore_partial \in BOOLEAN
    /\ pos = 0
    /\ src = <<>>
    /\ decoder = NewDecoder
    /\ is_readable = FALSE
    /\ eof = FALSE
    /\ has_errored = FALSE
    /\ tags = <<>>
    /\ record = NewRecord
    /\ records = <<>>
    /\ ended = FALSE
    /\ panicked = FALSE
    /\ eof_tag_at = None
    /\ rec = NewRecord
    /\ calls = <<>>
    /\ result = NoResult
    /\ err_record = NoRecord

SpecWhitespace == InitWhitespace /\ [][Next]_vars

\* C17 (as claimed): whitespace idempotence.  When runs of space, tab or
\* newline have been put before tags of a stream the sink wrote and the
\* result has been decoded to the end, the record stream has yielded what
\* the stream as written decodes to, the same records in the same order with
\* the same header flags, and no error.
C17_WhitespaceIdempotence ==
    ReadToEnd =>
        /\ records = Aggregate(NewRecord,
                               OneShotTags(dst, ignore_partial, FALSE))
        /\ ErrorCount(records) = 0

\* ---------------------------------------------------------------- the sinks
\* The values of the encode_* tests of write/test.rs, a string with a
\* two-byte character, and the DateTime values of the datetime tests.
ValueTrue     == DBoolean(TRUE)
ValueFalse    == DBoolean(FALSE)
ValueNumber   == DNumber(14074, 3)
ValueDate     == DDate(2024, 1, 15)
ValueTime     == DTime(14, 30, 0)
ValueFoo      == DString(<<"f", "o", "o">>)
ValueCafe     == DString(<<"c", "a", "f", "0xC3", "0xA9">>)
ValueDateTime == DDateTime(2024, 1, 15, 14, 30, 45)

SinkValues ==
    { ValueTrue, ValueFalse, ValueNumber, ValueDate, ValueTime, ValueFoo,
      ValueCafe, ValueDateTime }

\* The tags given to a tag sink: a field "f" with each value, and the two
\* boundary tags.
SinkTags == { FieldTag(<<"f">>, v) : v \in SinkValues } \cup { Eoh, Eor }

\* The records given to a record sink: the header of the specification's
\* example, the records of encode_record_with_all_types and of
\* encode_datetime_record_fails, and empty ones.
AdifverHeader ==
    [header |-> TRUE,
     fields |-> <<Entry(<<"a", "d", "i", "f", "v", "e", "r">>,
                        DString(<<"3", ".", "1", ".", "4">>))>>]

AllTypesRecord ==
    [header |-> FALSE,
     fields |-> <<Entry(<<"c", "a", "l", "l">>, DString(<<"W", "1", "A", "W">>)),
                  Entry(<<"q", "s", "l">>, ValueTrue),
                  Entry(<<"f", "r", "e", "q">>, ValueNumber),
                  Entry(<<"q", "s", "o", "_", "d", "a", "t", "e">>,
                        ValueDate),
                  Entry(<<"t", "i", "m", "e", "_", "o", "n">>, ValueTime)>>]

DateTimeRecord ==
    [header |-> FALSE,
     fields |-> <<Entry(<<"c", "a", "l", "l">>, DString(<<"W", "1", "A", "W">>)),
                  Entry(<<"q", "s", "o", "_", "d", "a", "t", "e", "t", "i",
                        "m", "e">>,
                        ValueDateTime)>>]

SinkRecords ==
    { AdifverHeader, AllTypesRecord, DateTimeRecord, NewRecord,
      [header |-> TRUE, fields |-> <<>>],
      [header |-> FALSE, fields |-> <<FieldA, Entry(<<"f">>, ValueCafe)>>] }

\* A sink made on an empty buffer: TagEncoder::tag_sink_with or
\* RecordSink::with_types, with one of the three policies.
InitSink ==
    /\ NoCaller
    /\ NoCabrillo
    /\ NoAdapter
    /\ sink \in {"TagSink", "RecordSink"}
    /\ types \in OutputTypes
    /\ dst = <<>>
    /\ sent = <<>>
    /\ sink_results = <<>>
    /\ input = <<>>
    /\ ignore_partial = FALSE
    /\ pos = 0
    /\ src = <<>>
    /\ decoder = NewDecoder
    /\ is_readable = FALSE
    /\ eof = FALSE
    /\ has_errored = FALSE
    /\ tags = <<>>
    /\ record = NewRecord
    /\ records = <<>>
    /\ ended = FALSE
    /\ panicked = FALSE
    /\ eof_tag_at = None
    /\ rec = NewRecord
    /\ calls = <<>>
    /\ result = NoResult
    /\ err_record = NoRecord

\* FramedWrite::start_send: the encoder has written into the buffer, and
\* the caller has the encoder's result.
SinkStep(item, r) ==
    /\ dst' = r.dst
    /\ sent' = Append(sent, item)
    /\ sink_results' = Append(sink_results, r.error)
    /\ UNCHANGED <<sink, types, stream_vars, record_vars, datum_vars,
                   cabrillo_vars,
                   filter_vars>>

\* A tag is sent to a tag sink.
SendTag ==
    /\ sink = "TagSink"
    /\ Len(sent) < MaxSent
    /\ \E item \in SinkTags : SinkStep(item, Encode(types, item, dst))

\* A record is sent to a record sink.
SendRecord ==
    /\ sink = "RecordSink"
    /\ Len(sent) < MaxSent
    /\ \E item \in SinkRecords : SinkStep(item, StartSend(types, item, dst))

NextSink == SendTag \/ SendRecord

SpecSink == InitSink /\ [][NextSink]_vars

\* The item the step has sent, and what the sink returned for it.
SendsOne == Len(sent') = Len(sent) + 1
LastSent == sent'[Len(sent')]
LastResult == sink_results'[Len(sink_results')]

\* The texts and lengths the encode_* tests of write/test.rs expect for the
\* values, and the length of "caf" followed by a two-byte character.
TestText(value) ==
    CASE value = ValueTrue   -> <<"Y">>
      [] value = ValueFalse  -> <<"N">>
      [] value = ValueNumber -> <<"1", "4", ".", "0", "7", "4">>
      [] value = ValueDate   -> <<"2", "0", "2", "4", "0", "1", "1", "5">>
      [] value = ValueTime   -> <<"1", "4", "3", "0", "0", "0">>
      [] value = ValueFoo    -> <<"f", "o", "o">>
      [] value = ValueCafe   -> <<"c", "a", "f", "0xC3", "0xA9">>

TestLen(value) ==
    CASE value = ValueTrue   -> <<"1">>
      [] value = ValueFalse  -> <<"1">>
      [] value = ValueNumber -> <<"6">>
      [] value = ValueDate   -> <<"8">>
      [] value = ValueTime   -> <<"6">>
      [] value = ValueFoo    -> <<"3">>
      [] value = ValueCafe   -> <<"5">>

\* The type indicator the claim gives for a kind under a policy.
ClaimedIndicator(policy, typ) ==
    IF policy = "Never" THEN <<>>
    ELSE IF policy = "OnlyNonString" /\ typ = "String" THEN <<>>
    ELSE CASE typ = "Boolean" -> <<":", "b">>
           [] typ = "Number"  -> <<":", "n">>
           [] typ = "Date"    -> <<":", "d">>
           [] typ = "Time"    -> <<":", "t">>
           [] typ = "String"  -> <<":", "s">>

\* C18: field encoding.  A tag sink that is sent a field "f" whose value is
\* not a DateTime accepts it and appends <f:LEN[:t]>value to its buffer,
\* where value is the canonical text of the datum, LEN the decimal number
\* of its UTF-8 bytes, and the indicator is b/n/d/t/s under Always, b/n/d/t
\* and none for a String under OnlyNonString, and none under Never.
C18_FieldEncoding ==
    [][(sink = "TagSink" /\ SendsOne /\ LastSent.tag = "Field"
            /\ LastSent.value.typ # "DateTime")
        => /\ LastResult = NoError
           /\ dst' = dst \o <<"<">> \o LastSent.name \o <<":">>
                         \o TestLen(LastSent.value)
                         \o ClaimedIndicator(types, LastSent.value.typ)
                         \o <<">">> \o TestText(LastSent.value)]_vars

\* A tag sink under OnlyNonString has written the string with the two-byte
\* character, without indicator, and a number with its indicator.
C18_Witness ==
    /\ sink = "TagSink"
    /\ Len(sent) = 2
    /\ sent[1] = FieldTag(<<"f">>, ValueCafe)
    /\ sent[2] = FieldTag(<<"f">>, ValueNumber)
    /\ types = "OnlyNonString"
    /\ dst = <<"<", "f", ":", "5", ">", "c", "a", "f", "0xC3", "0xA9", "<",
           "f", ":", "6", ":", "n", ">", "1", "4", ".", "0", "7", "4">>

\* The bytes the claim gives for a record: the encodings of its fields in
\* insertion order, then <eoh> or <eor> and a newline; and for a list of
\* records, one after the other.
RECURSIVE ClaimedFields(_, _)
ClaimedFields(policy, fields) ==
    IF fields = <<>> THEN <<>>
    ELSE EncodeField(policy, fields[1].name, fields[1].value, <<>>).dst
            \o ClaimedFields(policy, Tail(fields))

ClaimedRecord(policy, r) ==
    ClaimedFields(policy, r.fields)
        \o (IF r.header THEN <<"<", "e", "o", "h", ">", "\n">>
                        ELSE <<"<", "e", "o", "r", ">", "\n">>)

RECURSIVE ClaimedOutput(_, _)
ClaimedOutput(policy, rs) ==
    IF rs = <<>> THEN <<>>
    ELSE ClaimedRecord(policy, rs[1]) \o ClaimedOutput(policy, Tail(rs))

HasDateTime(r) == \E i \in 1..Len(r.fields) : r.fields[i].value.typ = "DateTime"

AllAccepted == \A k \in 1..Len(sink_results) : sink_results[k] = NoError

\* The outputs the specification's example and
\* encode_record_with_all_types expect.
AdifverBytes ==
    <<"<", "a", "d", "i", "f", "v", "e", "r", ":", "5", ">", "3", ".", "1",
    ".", "4", "<", "e", "o", "h", ">", "\n">>

AllTypesBytes ==
    <<"<", "c", "a", "l", "l", ":", "4", ">", "W", "1", "A", "W", "<", "q",
    "s", "l", ":", "1", ">", "Y", "<", "f", "r", "e", "q", ":", "6", ">",
    "1", "4", ".", "0", "7", "4", "<", "q", "s", "o", "_", "d", "a", "t",
    "e", ":", "8", ">", "2", "0", "2", "4", "0", "1", "1", "5", "<", "t",
    "i", "m", "e", "_", "o", "n", ":", "6", ">", "1", "4", "3", "0", "0",
    "0", "<", "e", "o", "r", ">", "\n">>

\* C19: record write contract.  A record sink accepts every record without
\* a DateTime, and each record it accepts adds to the output the record's
\* fields in insertion order followed by <eoh> and a newline for a header,
\* <eor> and a newline otherwise; the output for records that were all
\* accepted is the concatenation of these encodings in submission order;
\* the header {adifver: "3.1.4"} under Never gives <adifver:5>3.1.4<eoh>
\* and a newline.
C19_RecordWriteContract ==
    /\ []((sink = "RecordSink" /\ AllAccepted)
            => dst = ClaimedOutput(types, sent))
    /\ []((sink = "RecordSink" /\ types = "Never")
            => /\ sent = <<AdifverHeader>> => dst = AdifverBytes
               /\ sent = <<AllTypesRecord>> => dst = AllTypesBytes)
    /\ [][(sink = "RecordSink" /\ SendsOne)
            => /\ ~HasDateTime(LastSent) => LastResult = NoError
               /\ LastResult = NoError
                    => dst' = dst \o ClaimedRecord(types, LastSent)]_vars

\* A record sink under Never has written the example header and then the
\* record with a field of every kind.
C19_Witness ==
    /\ sink = "RecordSink"
    /\ types = "Never"
    /\ sent = <<AdifverHeader, AllTypesRecord>>
    /\ AllAccepted
    /\ dst = AdifverBytes \o AllTypesBytes

\* C20 (as claimed): a DateTime is rejected with a cannot-output error.
\* Under every policy, a tag sink that is sent a field whose value is a
\* DateTime, and a record sink that is sent a record with such a field,
\* return CannotOutput with typ "DateTime" and reason "split into date and
\* time fields".
C20_DateTimeCannotOutput ==
    \A k \in 1..Len(sent) :
        (\/ sink = "TagSink" /\ sent[k].tag = "Field"
                /\ sent[k].value.typ = "DateTime"
         \/ sink = "RecordSink" /\ HasDateTime(sent[k]))
        => sink_results[k] =
              CannotOutput("DateTime", "split into date and time fields")

\* C21 (as claimed): a write that fails because of a DateTime field fails
\* as a whole.  A send that a tag sink or a record sink rejects adds no
\* byte to the write buffer: neither the earlier fields of the record nor
\* any part of the failing tag.
C21_FailedWriteAddsNothing ==
    [][(SendsOne /\ LastResult # NoError) => dst' = dst]_vars

\* ------------------------------------------------------ decoding of tags
\* Streams for the decoder's treatment of single tags: malformed field
\* tags (no_length, too_many and others), markers and near-markers, typed
\* and untyped values (the invalid_* tests and others), values that hold
\* '<', '>' and whitespace, and text without tags.
MalformedStreams ==
    { <<"x", "\n", "<", "b", "a", "d", ">", "y">>,
      <<"<", "a", ":", "1", ":", "s", ":", "x", ">", "z">>,
      <<"<", "a", ":", "x", ">">>,
      <<"<", "a", ":", "-", "1", ">", "b">>,
      <<"<", "a", ":", ">">>,
      <<"<", "0xFF", ":", "1", ">", "x">>,
      <<"<", "a", ":", "1", ":", "0xFF", ">", "x">>,
      <<"<", ">">>,
      <<"<", "a", ":", "+", "1", ">", "x">>,
      <<"<", ":", "1", ">", "y">> }

MarkerStreams ==
    { <<"<", "E", "O", "H", ">">>,
      <<"<", "e", "O", "r", ">", " ", "\n", "<", "e", "o", "r", ">">>,
      <<"<", "A", "p", "p", "_", "L", "o", "T", "W", "_", "E", "O", "F",
        ">", "x">>,
      <<"<", "e", "o", "r", ":", "3", ">", "a", "b", "c">>,
      <<"<", "e", "o", "h", " ", ">">>,
      <<"<", "x", "e", "o", "r", ">", "<", "e", "o", "r", ">">>,
      <<"<", "e", "o", "h", ":", "0", ">", "<", "e", "o", "h", ">">> }

TypedStreams ==
    { <<"<", "n", ":", "3", ":", "n", ">", "1", ".", "5">>,
      <<"<", "n", ":", "2", ":", "N", ">", "-", "7">>,
      <<"<", "n", ":", "1", ":", "n", ">", "x", "<", "e", "o", "r", ">">>,
      <<"<", "b", ":", "1", ":", "b", ">", "Y">>,
      <<"<", "b", ":", "1", ":", "B", ">", "n">>,
      <<"<", "b", ":", "1", ":", "b", ">", "T">>,
      <<"<", "d", ":", "8", ":", "d", ">", "2", "0", "2", "4", "0", "2",
        "2", "9">>,
      <<"<", "d", ":", "8", ":", "D", ">", "2", "0", "2", "3", "0", "2",
        "2", "9">>,
      <<"<", "d", ":", "7", ":", "d", ">", "2", "0", "2", "4", "1", "1",
        "5">>,
      <<"<", "t", ":", "6", ":", "t", ">", "2", "3", "5", "9", "5", "9">>,
      <<"<", "t", ":", "6", ":", "T", ">", "2", "4", "0", "0", "0", "0">>,
      <<"<", "t", ":", "5", ":", "t", ">", "1", "2", "3", "4", "5">>,
      <<"<", "s", ":", "1", ":", "s", ">", "x">>,
      <<"<", "s", ":", "2", ":", "x", ">", "a", "b">>,
      <<"<", "s", ":", "1", ":", ">", "x">>,
      <<"<", "s", ":", "2", ":", "n", "n", ">", "1", "5">>,
      <<"<", "s", ":", "1", ":", "n", ">", "0xFF">>,
      <<"<", "s", ":", "2", ">", "0xC3", "0xA9">>,
      <<"<", "d", ":", "8", ">", "2", "0", "2", "4", "0", "2", "2", "9">>,
      <<"<", "s", ":", "1", ">", "0xFF">> }

PartialStreams ==
    { <<"<", "c", ":", "3", ">", "<", " ", ">", "<", "e", "o", "r", ">">>,
      <<"<", "c", ":", "4", ">", ">", "\n", "<", "x", "<", "e", "o", "r",
        ">">> }

TextStreams ==
    { <<"b", "a", "n", "n", "e", "r", "\n", "<", "e", "o", "h", ">">>,
      <<"<", "e", "o", "r", ">", "j", "u", "n", "k", "<", "e", "o", "r",
        ">">>,
      <<"<", "e", "o", "r", ">", "j", "u", "n", "k">>,
      <<"j", "u", "n", "k">>,
      <<" ", "\n">>,
      <<"a", ">", "b", "<", "e", "o", "r", ">">> }

DecodeInputs ==
    MalformedStreams \cup MarkerStreams \cup TypedStreams
        \cup PartialStreams \cup TextStreams

\* TagDecoder::new_stream(reader, ignore_partial).records() on one of these
\* streams.
InitDecode ==
    /\ NoCaller
    /\ NoCabrillo
    /\ NoAdapter
    /\ input \in DecodeInputs
    /\ ignore_partial \in BOOLEAN
    /\ pos = 0
    /\ src = <<>>
    /\ decoder = NewDecoder
    /\ is_readable = FALSE
    /\ eof = FALSE
    /\ has_errored = FALSE
    /\ tags = <<>>
    /\ record = NewRecord
    /\ records = <<>>
    /\ ended = FALSE
    /\ panicked = FALSE
    /\ eof_tag_at = None
    /\ rec = NewRecord
    /\ calls = <<>>
    /\ result = NoResult
    /\ err_record = NoRecord
    /\ NoSink

SpecDecode == InitDecode /\ [][Next]_vars

\* A decode call is about to be made on the buffer; the first '<' of the
\* buffer, the bytes from it, the first '>' after it, the tag body between
\* them and the offset of that '<' in the stream.
DecodeCall == Running /\ is_readable /\ ~has_errored
TagStart == PositionOf(src, "<")
FromTag == DropFront(src, TagStart)
TagEnd == PositionOf(FromTag, ">")
HasTagBody == TagStart # None /\ TagEnd # None
TagBody == Slice(FromTag, 1, TagEnd)
TagOffset == pos - Len(src) + TagStart
LastTag == tags'[Len(tags')]

\* The position of the byte at offset `off` of the stream: one more than
\* the newlines before it, and one more than the bytes after the last of
\* them.
PositionAt(off) ==
    [line |-> 1 + Count(Slice(input, 0, off), "\n"),
     column |-> 1 + Cardinality({ i \in 1..off :
                       \A j \in i..off : input[j] # "\n" }),
     byte |-> off]

IsMarkerBody(body) ==
    ToAsciiLowercaseName(body)
        \in { <<"e","o","h">>, <<"e","o","r">>,
              <<"a","p","p","_","l","o","t","w","_","e","o","f">> }

\* The body splits on ':' into two or three parts, is valid UTF-8, and its
\* second part parses as a length.
WellFormedBody(body) ==
    /\ Count(body, ":") \in {1, 2}
    /\ IsUtf8(body)
    /\ ParseUsize(Split(body)[2]) # None

\* The lossy text of a body whose only invalid bytes are 0xFF.
LossyBody(body) ==
    [i \in 1..Len(body) |-> IF body[i] = "0xFF" THEN "U+FFFD" ELSE body[i]]

\* C22: malformed field tag.  A decode call on a buffer that holds a tag
\* whose body is no marker and does not split on ':' into two or three
\* parts of valid UTF-8 with a second part that parses as a length,
\* returns an InvalidFormat error with the lossy text of the body and the
\* position of the tag's '<', whatever follows the '>' in the buffer.
C22_MalformedFieldTag ==
    [][(DecodeCall /\ HasTagBody /\ ~IsMarkerBody(TagBody)
            /\ ~WellFormedBody(TagBody))
        => /\ YieldsTag
           /\ LastTag = ErrTag(InvalidFormat(LossyBody(TagBody),
                                             PositionAt(TagOffset)))]_vars

\* The too_many case: the error has been returned when the '>' was the
\* last byte delivered, before the byte after it.
C22_Witness ==
    /\ input = <<"<", "a", ":", "1", ":", "s", ":", "x", ">", "z">>
    /\ pos = 9
    /\ tags = <<ErrTag(InvalidFormat(<<"a", ":", "1", ":", "s", ":", "x">>,
                                     [line |-> 1, column |-> 1, byte |-> 0]))>>

\* The parts of a well-formed tag body, and the value bytes that follow the
\* '>' once all of them are buffered.
BodyName == Split(TagBody)[1]
BodyLength == ParseUsize(Split(TagBody)[2])
BodyType == IF Len(Split(TagBody)) = 3 THEN Split(TagBody)[3] ELSE <<>>
ValueBuffered == Len(FromTag) >= TagEnd + 1 + BodyLength
ValueBytes == Slice(FromTag, TagEnd + 1, TagEnd + 1 + BodyLength)

\* The number that a text of digits denotes.
RECURSIVE DigitsValue(_)
DigitsValue(s) ==
    IF s = <<>> THEN 0
    ELSE DigitsValue(SubSeq(s, 1, Len(s) - 1)) * 10 + DigitVal(s[Len(s)])

AllDigits(s) == \A i \in 1..Len(s) : IsDigit(s[i])

\* YYYYMMDD: eight digits that name a day of the calendar; HHMMSS: six
\* digits that name a time of day.
IsYYYYMMDD(v) ==
    /\ Len(v) = 8 /\ AllDigits(v)
    /\ DigitsValue(SubSeq(v, 5, 6)) \in 1..12
    /\ DigitsValue(SubSeq(v, 7, 8))
          \in 1..DaysInMonth(DigitsValue(SubSeq(v, 1, 4)),
                             DigitsValue(SubSeq(v, 5, 6)))

IsHHMMSS(v) ==
    /\ Len(v) = 6 /\ AllDigits(v)
    /\ DigitsValue(SubSeq(v, 1, 2)) <= 23
    /\ DigitsValue(SubSeq(v, 3, 4)) <= 59
    /\ DigitsValue(SubSeq(v, 5, 6)) <= 59

\* The datum the claim gives for a value under a type code, or NoDatum
\* where it gives an error.
ClaimedDatum(typ, v) ==
    IF ~IsUtf8(v) THEN NoDatum
    ELSE IF typ \in {<<"n">>, <<"N">>} THEN ParseDecimal(v)
    ELSE IF typ \in {<<"b">>, <<"B">>}
         THEN (IF v \in {<<"Y">>, <<"y">>} THEN SomeDatum(DBoolean(TRUE))
               ELSE IF v \in {<<"N">>, <<"n">>} THEN SomeDatum(DBoolean(FALSE))
               ELSE NoDatum)
    ELSE IF typ \in {<<"d">>, <<"D">>}
         THEN (IF IsYYYYMMDD(v)
               THEN SomeDatum(DDate(DigitsValue(SubSeq(v, 1, 4)),
                                    DigitsValue(SubSeq(v, 5, 6)),
                                    DigitsValue(SubSeq(v, 7, 8))))
               ELSE NoDatum)
    ELSE IF typ \in {<<"t">>, <<"T">>}
         THEN (IF IsHHMMSS(v)
               THEN SomeDatum(DTime(DigitsValue(SubSeq(v, 1, 2)),
                                    DigitsValue(SubSeq(v, 3, 4)),
                                    DigitsValue(SubSeq(v, 5, 6))))
               ELSE NoDatum)
    ELSE SomeDatum(DString(v))

ClaimedItem(parsed) ==
    IF parsed.ok THEN OkTag(FieldTag(BodyName, parsed.datum))
    ELSE ErrTag(InvalidFormat(TagBody, PositionAt(TagOffset)))

\* C23 (as claimed): type codes.  A decode call on a buffer that holds a
\* well-formed field tag and all its value bytes yields a Number for type
\* n or N and a valid decimal, a Boolean for b or B and Y, y, N or n, a
\* Date for d or D and YYYYMMDD, a Time for t or T and HHMMSS, a String
\* with the value verbatim for any other type code or none, and an
\* InvalidFormat error with the tag body for a value that is invalid for
\* its type or is not UTF-8; it never yields a DateTime.
C23_TypeCodes ==
    [][(DecodeCall /\ HasTagBody /\ ~IsMarkerBody(TagBody)
            /\ WellFormedBody(TagBody) /\ ValueBuffered)
        => /\ YieldsTag
           /\ LastTag = ClaimedItem(ClaimedDatum(BodyType, ValueBytes))
           /\ LastTag.tag.value.typ # "DateTime"]_vars

\* The buffer holds a '<' without a '>' after it, or a well-formed field
\* tag with fewer value bytes after its '>' than its length.
PartialTag ==
    /\ TagStart # None
    /\ \/ TagEnd = None
       \/ /\ ~IsMarkerBody(TagBody)
          /\ WellFormedBody(TagBody)
          /\ ~ValueBuffered

\* C24: need more data preserves the partial tag.  A decode call on a
\* buffer that holds a '<' but no '>' after it, or a complete field tag
\* and fewer than `length` bytes after its '>', yields nothing and leaves
\* the buffer holding every byte from that '<' on, with the position
\* tracker at that '<'; a decode call on a buffer that holds an untyped
\* field tag and `length` bytes of text after its '>' yields the field
\* with exactly these bytes as its value, whatever they are.
C24_NeedMoreDataKeepsTag ==
    [][/\ (DecodeCall /\ PartialTag /\ (~eof \/ ignore_partial))
            => /\ tags' = tags /\ records' = records
               /\ src' = FromTag
               /\ Position(decoder') = PositionAt(TagOffset)
       /\ (DecodeCall /\ HasTagBody /\ ~IsMarkerBody(TagBody)
             /\ WellFormedBody(TagBody) /\ ValueBuffered
             /\ BodyType = <<>> /\ IsUtf8(ValueBytes))
            => /\ YieldsTag
               /\ LastTag = OkTag(FieldTag(BodyName, DString(ValueBytes)))
      ]_vars

\* The tag <c:4> has been buffered with one byte of its value, a '>',
\* and decode has asked for more: nothing is yielded and the six bytes are
\* still in the buffer.
C24_Witness ==
    /\ input = <<"<", "c", ":", "4", ">", ">", "\n", "<", "x", "<", "e", "o", "r", ">">>
    /\ pos = 6
    /\ src = <<"<", "c", ":", "4", ">", ">">>
    /\ ~is_readable /\ ~eof /\ ~ended
    /\ tags = <<>>
    /\ Position(decoder) = [line |-> 1, column |-> 1, byte |-> 0]

\* C25 (as claimed): skipping of tag-free text.  A decode call on a buffer
\* without a '<' yields nothing, neither a tag nor an error, and consumes
\* the text: the buffer is left empty and the position tracker is at the
\* end of the bytes delivered.
C25_TagFreeTextConsumed ==
    [][(DecodeCall /\ ~eof /\ src # <<>> /\ TagStart = None)
        => /\ tags' = tags /\ records' = records
           /\ src' = <<>>
           /\ Position(decoder') = PositionAt(pos)]_vars

\* ------------------------------------------------- a datum and its callers
\* Bound: how many accessor calls a caller makes on its datums.
MaxAccess == 2

\* NaiveTime::from_hms_milli_opt(14, 30, 0, 500): a time of day with a
\* fraction of a second, which no text of the format HHMMSS denotes.
TimeMilli == [typ |-> "Time", s |-> <<>>, n |-> <<14, 30, 0, 500>>, b |-> FALSE]

\* The datums of the coerce_* and as_str_roundtrip tests, a leap second, a
\* fraction of a second and the year after 9999.
TypedDatums ==
    { DBoolean(TRUE), DBoolean(FALSE), DNumber(14070, 3), DNumber(0 - 5, 0),
      DDate(2023, 12, 15), DDate(5, 1, 2), DDate(10000, 1, 1),
      DTime(14, 30, 0), DTime(23, 59, 60), TimeMilli,
      DDateTime(2023, 12, 15, 14, 30, 0), DDateTime(10000, 1, 1, 0, 0, 0) }

StringDatums ==
    { DString(<<"Y">>),
      DString(<<"y">>),
      DString(<<"N">>),
      DString(<<"n">>),
      DString(<<"x">>),
      DString(<<"1", "4", ".", "0", "7", "0">>),
      DString(<<"-", "5">>),
      DString(<<"i", "n", "v", "a", "l", "i", "d">>),
      DString(<<"2", "0", "2", "3", "1", "2", "1", "5">>),
      DString(<<"2", "0", "2", "3", "0", "2", "2", "9">>),
      DString(<<"1", "4", "3", "0", "0", "0">>),
      DString(<<"2", "5", "6", "0", "0", "0">>),
      DString(<<"2", "0", "2", "3", "1", "2", "1", "5", " ", "1", "4", "3", "0", "0", "0">>),
      DString(<<"2", "0", "2", "3", "1", "2", "1", "5", "\t", "1", "4", "3", "0", "0", "0">>),
      DString(<<"2", "0", "2", "3", "-", "1", "2", "-", "1", "5">>),
      DString(<<>>) }

Accessors ==
    {"as_bool", "as_number", "as_date", "as_time", "as_datetime", "as_str"}

\* The variant an accessor is for.
VariantOf(accessor) ==
    CASE accessor = "as_bool"     -> "Boolean"
      [] accessor = "as_number"   -> "Number"
      [] accessor = "as_date"     -> "Date"
      [] accessor = "as_time"     -> "Time"
      [] accessor = "as_datetime" -> "DateTime"
      [] accessor = "as_str"      -> "String"

\* What an accessor returns for a datum, as Option<Datum>; as_str always
\* returns a text.
Access(accessor, d) ==
    CASE accessor = "as_bool"     -> AsBool(d)
      [] accessor = "as_number"   -> AsNumber(d)
      [] accessor = "as_date"     -> AsDate(d)
      [] accessor = "as_time"     -> AsTime(d)
      [] accessor = "as_datetime" -> AsDateTime(d)
      [] accessor = "as_str"      -> SomeDatum(DString(AsStr(d)))

\* A caller holds one datum.
InitDatum ==
    /\ datum \in TypedDatums \cup StringDatums
    /\ accessed = <<>>
    /\ NoCabrillo
    /\ NoAdapter
    /\ input = <<>>
    /\ ignore_partial = FALSE
    /\ pos = 0
    /\ src = <<>>
    /\ decoder = NewDecoder
    /\ is_readable = FALSE
    /\ eof = FALSE
    /\ has_errored = FALSE
    /\ tags = <<>>
    /\ record = NewRecord
    /\ records = <<>>
    /\ ended = FALSE
    /\ panicked = FALSE
    /\ eof_tag_at = None
    /\ rec = NewRecord
    /\ calls = <<>>
    /\ result = NoResult
    /\ err_record = NoRecord
    /\ NoSink

\* The caller calls an accessor on its datum and keeps what it returned.
Call(accessor) ==
    /\ Len(accessed) < MaxAccess
    /\ accessed' = Append(accessed, [accessor |-> accessor, of |-> datum,
                                     result |-> Access(accessor, datum)])
    /\ UNCHANGED <<datum, stream_vars, record_vars, sink_vars, cabrillo_vars,
                   filter_vars>>

\* Datum::String(s.to_string()) of the text as_str has just returned.
FromStr ==
    /\ accessed # <<>>
    /\ accessed[Len(accessed)].accessor = "as_str"
    /\ datum.typ # "String"
    /\ datum' = accessed[Len(accessed)].result.datum
    /\ UNCHANGED <<accessed, stream_vars, record_vars, sink_vars,
                   cabrillo_vars,
                   filter_vars>>

NextDatum ==
    \/ Call("as_bool")
    \/ Call("as_number")
    \/ Call("as_date")
    \/ Call("as_time")
    \/ Call("as_datetime")
    \/ Call("as_str")
    \/ FromStr

SpecDatum == InitDatum /\ [][NextDatum]_vars

\* Texts in the canonical format of an accessor with the value they denote,
\* and texts that are not in it (coerce_* tests).
CanonicalParses ==
    { <<"as_bool", <<"Y">>, DBoolean(TRUE)>>,
      <<"as_bool", <<"y">>, DBoolean(TRUE)>>,
      <<"as_bool", <<"N">>, DBoolean(FALSE)>>,
      <<"as_bool", <<"n">>, DBoolean(FALSE)>>,
      <<"as_number", <<"1", "4", ".", "0", "7", "0">>, DNumber(14070, 3)>>,
      <<"as_number", <<"-", "5">>, DNumber(0 - 5, 0)>>,
      <<"as_number", <<"2", "0", "2", "3", "1", "2", "1", "5">>, DNumber(20231215, 0)>>,
      <<"as_number", <<"1", "4", "3", "0", "0", "0">>, DNumber(143000, 0)>>,
      <<"as_date", <<"2", "0", "2", "3", "1", "2", "1", "5">>, DDate(2023, 12, 15)>>,
      <<"as_time", <<"1", "4", "3", "0", "0", "0">>, DTime(14, 30, 0)>>,
      <<"as_datetime", <<"2", "0", "2", "3", "1", "2", "1", "5", " ", "1", "4", "3", "0", "0", "0">>, DDateTime(2023, 12, 15, 14, 30, 0)>> }

FailedParses ==
    { <<"as_bool", <<"x">>>>,
      <<"as_bool", <<"1", "4", ".", "0", "7", "0">>>>,
      <<"as_bool", <<>>>>,
      <<"as_number", <<"i", "n", "v", "a", "l", "i", "d">>>>,
      <<"as_number", <<"Y">>>>,
      <<"as_number", <<"2", "0", "2", "3", "-", "1", "2", "-", "1", "5">>>>,
      <<"as_number", <<>>>>,
      <<"as_date", <<"2", "0", "2", "3", "0", "2", "2", "9">>>>,
      <<"as_date", <<"i", "n", "v", "a", "l", "i", "d">>>>,
      <<"as_date", <<"2", "0", "2", "3", "-", "1", "2", "-", "1", "5">>>>,
      <<"as_date", <<"2", "0", "2", "3", "1", "2", "1", "5", " ", "1", "4", "3", "0", "0", "0">>>>,
      <<"as_date", <<>>>>,
      <<"as_time", <<"2", "5", "6", "0", "0", "0">>>>,
      <<"as_time", <<"i", "n", "v", "a", "l", "i", "d">>>>,
      <<"as_time", <<"x">>>>,
      <<"as_time", <<>>>>,
      <<"as_datetime", <<"2", "0", "2", "3", "1", "2", "1", "5">>>>,
      <<"as_datetime", <<"1", "4", "3", "0", "0", "0">>>>,
      <<"as_datetime", <<"i", "n", "v", "a", "l", "i", "d">>>>,
      <<"as_datetime", <<>>>> }

\* One call of an accessor agrees with the lattice.
InLattice(call) ==
    /\ call.of.typ = VariantOf(call.accessor)
          => call.result = SomeDatum(call.of)
    /\ call.of.typ \notin {VariantOf(call.accessor), "String"}
          => call.result = NoDatum
    /\ call.of.typ = "String"
          => /\ \A p \in CanonicalParses :
                   p[1] = call.accessor /\ p[2] = call.of.s
                      => call.result = SomeDatum(p[3])
             /\ <<call.accessor, call.of.s>> \in FailedParses
                   => call.result = NoDatum
             /\ call.result.ok
                   => call.result.datum.typ = VariantOf(call.accessor)

\* C26: coercion lattice of Datum.  Every call of as_bool, as_number,
\* as_date, as_time or as_datetime has returned the stored value on the
\* matching variant, none on any other non-String variant, and on a String
\* the value the canonical text denotes, none for a text that does not
\* parse, and never a value of another variant.
C26_CoercionLattice ==
    \A i \in 1..Len(accessed) :
        accessed[i].accessor # "as_str" => InLattice(accessed[i])

\* as_datetime has returned none for a Date, and as_date its stored value.
C26_Witness ==
    /\ Len(accessed) = 2
    /\ datum = DDate(2023, 12, 15)
    /\ accessed[1] = [accessor |-> "as_datetime", of |-> datum,
                      result |-> NoDatum]
    /\ accessed[2] = [accessor |-> "as_date", of |-> datum,
                      result |-> SomeDatum(datum)]

\* The accessor of a variant.
AccessorOf(variant) == CHOOSE a \in Accessors : VariantOf(a) = variant

\* The text has the canonical form of the variant: Y or N, YYYYMMDD,
\* HHMMSS, or the two with one space between them.
HasCanonicalForm(variant, text) ==
    CASE variant = "Boolean"  -> text \in {<<"Y">>, <<"N">>}
      [] variant = "Number"   -> text # <<>>
      [] variant = "Date"     -> Len(text) = 8 /\ AllDigits(text)
      [] variant = "Time"     -> Len(text) = 6 /\ AllDigits(text)
      [] variant = "DateTime" ->
            /\ Len(text) = 15 /\ text[9] = " "
            /\ AllDigits(SubSeq(text, 1, 8)) /\ AllDigits(SubSeq(text, 10, 15))

\* as_str has returned the canonical text of the datum it was called on.
CanonicalText(i) ==
    /\ accessed[i].of.typ = "String"
          => accessed[i].result = SomeDatum(accessed[i].of)
    /\ accessed[i].of.typ # "String"
          => /\ accessed[i].result.ok
             /\ HasCanonicalForm(accessed[i].of.typ,
                                 accessed[i].result.datum.s)

\* ... and every later reading of that text through the accessor of the
\* datum's variant has returned the datum.
RoundTrips(i) ==
    /\ CanonicalText(i)
    /\ accessed[i].of.typ # "String"
          => \A j \in (i + 1)..Len(accessed) :
                   (/\ accessed[j].of = accessed[i].result.datum
                    /\ accessed[j].accessor = AccessorOf(accessed[i].of.typ))
                      => accessed[j].result = SomeDatum(accessed[i].of)

\* The datum holds no year outside 0..9999; it holds no fraction of a
\* second.
FourDigitYear(d) == d.typ \in {"Date", "DateTime"} => d.n[1] \in 0..9999
WholeSeconds(d) == d.typ = "Time" => Len(d.n) = 3

CaseStreams ==
    { <<"<", "F", "O", "O", ":", "3", ">", "B", "a", "r", "<", "e", "o",
        "r", ">">>,
      <<"<", "C", "a", "l", "l", ":", "1", ">", "x", "<", "f", "O", "o",
        ":", "2", ">", "y", "z", "<", "e", "o", "r", ">", "<", "F", "O", "O",
        ":", "1", ">", "w", "<", "e", "o", "r", ">">>,
      <<"<", "F", "O", "O", ":", "3", ">", "B", "a", "r", "<", "e", "o",
        "r", ">", "<", "f", "o", "o", ">">> }

\* Names a caller looks up: case variants of the names in the streams, and
\* names no record holds.
LookupNames ==
    { <<"F", "O", "O">>,
      <<"f", "o", "o">>,
      <<"F", "o", "O">>,
      <<"c", "a", "l", "l">>,
      <<"C", "A", "L", "L">>,
      <<"f", "o">>,
      <<"m", "i", "s", "s", "i", "n", "g">> }

InitLookup ==
    /\ NoCaller
    /\ NoCabrillo
    /\ NoAdapter
    /\ input \in CaseStreams
    /\ ignore_partial \in BOOLEAN
    /\ pos = 0
    /\ src = <<>>
    /\ decoder = NewDecoder
    /\ is_readable = FALSE
    /\ eof = FALSE
    /\ has_errored = FALSE
    /\ tags = <<>>
    /\ record = NewRecord
    /\ records = <<>>
    /\ ended = FALSE
    /\ panicked = FALSE
    /\ eof_tag_at = None
    /\ rec = NewRecord
    /\ calls = <<>>
    /\ result = NoResult
    /\ err_record = NoRecord
    /\ NoSink

\* record.get(name) on a record the stream has yielded; the caller keeps
\* what it returned.
GetCall ==
    /\ Len(accessed) < MaxAccess
    /\ \E k \in 1..Len(records), name \in LookupNames :
          /\ records[k].ok
          /\ accessed' = Append(accessed,
                [accessor |-> "get", of |-> [record |-> k, name |-> name],
                 result |-> Get(records[k].record, name)])
    /\ UNCHANGED <<datum, stream_vars, record_vars, sink_vars, cabrillo_vars,
                   filter_vars>>

NextLookup == Next \/ GetCall

SpecLookup == InitLookup /\ [][NextLookup]_vars

\* The fields of a record whose name is `name` in some spelling.
Spellings(fields, name) ==
    { i \in 1..Len(fields) :
        ToAsciiLowercaseName(fields[i].name) = ToAsciiLowercaseName(name) }

\* What the claim gives for a lookup: the value of the field whose name is
\* `name` in some spelling, none when there is no such field.
ClaimedGet(fields, name) ==
    IF Spellings(fields, name) = {} THEN NoDatum
    ELSE SomeDatum(fields[CHOOSE i \in Spellings(fields, name) : TRUE].value)

\* The name was spelled like this in a field tag the stream has yielded.
SpelledInTags(entry) ==
    \E i \in 1..Len(tags) :
        tags[i] = OkTag(FieldTag(entry.name, entry.value))

LowerBody == ToAsciiLowercaseName(TagBody)

\* C29: reserved markers.  A decode call on a buffer that holds a whole tag
\* yields EndOfHeader exactly when the body is eoh in some case, EndOfRecord
\* exactly when it is eor, and takes the tag for the vendor end-of-file
\* marker (dropping the buffer, yielding nothing) exactly when it is
\* app_lotw_eof; any other body is validated as a field tag: an error when
\* it is malformed, and a Field of the body's name when a tag is yielded.
C29_ReservedMarkers ==
    [][(DecodeCall /\ HasTagBody)
         => /\ LowerBody = <<"e", "o", "h">>
                  <=> (YieldsTag /\ LastTag = OkTag(Eoh))
            /\ LowerBody = <<"e", "o", "r">>
                  <=> (YieldsTag /\ LastTag = OkTag(Eor))
            /\ LowerBody
                  = <<"a", "p", "p", "_", "l", "o", "t", "w", "_", "e", "o",
                      "f">>
                  <=> (tags' = tags /\ src' = <<>>)
            /\ (~IsMarkerBody(TagBody) /\ ~WellFormedBody(TagBody))
                  => (YieldsTag /\ ~LastTag.ok)
            /\ (~IsMarkerBody(TagBody) /\ YieldsTag /\ LastTag.ok)
                  => (LastTag.tag.tag = "Field" /\ LastTag.tag.name = BodyName)
      ]_vars

\* <eor:3>abc has given a field named eor, not an end of record.
C29_Witness ==
    /\ input = <<"<", "e", "o", "r", ":", "3", ">", "a", "b", "c">>
    /\ tags = <<OkTag(FieldTag(<<"e", "o", "r">>, DString(<<"a", "b", "c">>)))>>
    /\ records = <<>>
    /\ src = <<>>

\* ------------------------------------------------------------ CabrilloSink
\* Bounds: how many records a caller sends to a Cabrillo sink, and how often
\* the writer answers Pending to a close.
MaxLog == 3
MaxPending == 1

ToAsciiUppercase(b) ==
    IF \E i \in 1..26 : Lower[i] = b
    THEN Upper[CHOOSE i \in 1..26 : Lower[i] = b]
    ELSE b

\* str::to_uppercase, for names of ASCII letters.
ToUppercase(name) == [i \in 1..Len(name) |-> ToAsciiUppercase(name[i])]

\* Error::MissingHeader, Error::DuplicateHeader and
\* Error::MissingField { field, record }
MissingHeader ==
    [err |-> "MissingHeader", message |-> <<>>, position |-> NoPosition,
     key |-> <<>>, record |-> NoRecord]
DuplicateHeader ==
    [err |-> "DuplicateHeader", message |-> <<>>, position |-> NoPosition,
     key |-> <<>>, record |-> NoRecord]
MissingField(field, r) ==
    [err |-> "MissingField", message |-> <<>>, position |-> NoPosition,
     key |-> field, record |-> r]

\* Datum::to_cabrillo: a date as YYYY-MM-DD, a time as HHMM, and any other
\* value as its text.
ToCabrillo(d) ==
    IF d.typ = "Date"
    THEN Pad(d.n[1], 4) \o <<"-">> \o Pad(d.n[2], 2) \o <<"-">>
         \o Pad(d.n[3], 2)
    ELSE IF d.typ = "Time" THEN Pad(d.n[1], 2) \o Pad(d.n[2], 2)
    ELSE AsStr(d)

\* What an encoder call leaves: the encoder, the buffer and the error.
Encoded(enc, buf, error) == [enc |-> enc, dst |-> buf, error |-> error]

\* CabrilloEncoder::encode_header, lines 42-50: one line for each field.
RECURSIVE HeaderLines(_, _)
HeaderLines(fields, buf) ==
    IF fields = <<>> THEN buf
    ELSE HeaderLines(Tail(fields),
                     buf \o ToUppercase(fields[1].name) \o <<":", " ">>
                         \o ToCabrillo(fields[1].value) \o <<"\n">>)

StartOfLog ==
    <<"S", "T", "A", "R", "T", "-", "O", "F", "-", "L", "O", "G", ":", " ",
      "3", ".", "0", "\n">>
EndOfLog == <<"E", "N", "D", "-", "O", "F", "-", "L", "O", "G", ":", "\n">>

\* CabrilloEncoder::encode_header
EncodeHeader(enc, r, buf) ==
    IF enc.started THEN Encoded(enc, buf, DuplicateHeader)
    ELSE Encoded([enc EXCEPT !.started = TRUE],
                 HeaderLines(r.fields, buf \o StartOfLog), NoError)

\* CabrilloEncoder::encode_qso, lines 57-71: the configured fields from the
\* i-th on, with a space before all but the first, then the newline; the
\* first field the record lacks ends the call.
RECURSIVE QsoFields(_, _, _, _)
QsoFields(enc, r, i, buf) ==
    IF i > Len(enc.fields) THEN Encoded(enc, buf \o <<"\n">>, NoError)
    ELSE IF ~Get(r, enc.fields[i]).ok
         THEN Encoded(enc, buf, MissingField(enc.fields[i], r))
    ELSE QsoFields(enc, r, i + 1,
                   buf \o (IF i > 1 THEN <<" ">> ELSE <<>>)
                       \o ToCabrillo(Get(r, enc.fields[i]).datum))

\* CabrilloEncoder::encode_qso
EncodeQso(enc, r, buf) ==
    QsoFields(enc, r, 1, buf \o <<"Q", "S", "O", ":", " ">>)

\* Item::Eof, and Item::Record(r) as r itself.
ItemEof == [header |-> FALSE, fields |-> <<>>, eof |-> TRUE]

\* <CabrilloEncoder as Encoder<Item>>::encode
EncodeItem(enc, item, buf) ==
    IF item = ItemEof
    THEN (IF ~enc.started THEN Encoded(enc, buf, MissingHeader)
          ELSE Encoded(enc, buf \o EndOfLog, NoError))
    ELSE IF item.header THEN EncodeHeader(enc, item, buf)
    ELSE IF ~enc.started THEN Encoded(enc, buf, MissingHeader)
    ELSE EncodeQso(enc, item, buf)

\* The records of the tests: a header, a contact with call and freq, and
\* one with a date, a time and a call spelled in upper case.
LogHeader ==
    [header |-> TRUE,
     fields |-> <<Entry(<<"c", "o", "n", "t", "e", "s", "t">>,
                        DString(<<"T">>))>>]
QsoFull ==
    [header |-> FALSE,
     fields |-> <<Entry(<<"c", "a", "l", "l">>, DString(<<"W", "1", "A", "W">>)),
                  Entry(<<"f", "r", "e", "q">>, DString(<<"7">>))>>]
QsoTyped ==
    [header |-> FALSE,
     fields |-> <<Entry(<<"q", "s", "o", "_", "d", "a", "t", "e">>, DDate(2020, 1, 1)),
                  Entry(<<"t", "i", "m", "e", "_", "o", "n">>, DTime(12, 34, 0)),
                  Entry(<<"C", "A", "L", "L">>,
                        DString(<<"A", "B", "9", "B", "H">>))>>]
LogRecords == {LogHeader, QsoFull, QsoTyped}

\* The fields a sink is configured with.
CallFreq == <<<<"c", "a", "l", "l">>, <<"f", "r", "e", "q">>>>
DateTimeCall ==
    <<<<"q", "s", "o", "_", "d", "a", "t", "e">>,
      <<"t", "i", "m", "e", "_", "o", "n">>, <<"c", "a", "l", "l">>>>

\* CabrilloSink::new(w, fields)
InitCabrillo ==
    /\ sink = "CabrilloSink"
    /\ cabrillo \in { [fields |-> f, started |-> FALSE] :
                        f \in {CallFreq, DateTimeCall} }
    /\ writer = NewWriter
    /\ types = "Never"
    /\ dst = <<>>
    /\ sent = <<>>
    /\ sink_results = <<>>
    /\ NoCaller
    /\ NoAdapter
    /\ input = <<>>
    /\ ignore_partial = FALSE
    /\ pos = 0
    /\ src = <<>>
    /\ decoder = NewDecoder
    /\ is_readable = FALSE
    /\ eof = FALSE
    /\ has_errored = FALSE
    /\ tags = <<>>
    /\ record = NewRecord
    /\ records = <<>>
    /\ ended = FALSE
    /\ panicked = FALSE
    /\ eof_tag_at = None
    /\ rec = NewRecord
    /\ calls = <<>>
    /\ result = NoResult
    /\ err_record = NoRecord

\* SinkExt::send: start_send gives the record to the encoder, and when the
\* encoder has accepted it the buffer is flushed to the writer; after an
\* error the bytes the encoder had written stay in the buffer.
SendOutcome(item, e) ==
    /\ cabrillo' = e.enc
    /\ sent' = Append(sent, item)
    /\ sink_results' = Append(sink_results, e.error)
    /\ dst' = IF e.error = NoError THEN <<>> ELSE e.dst
    /\ writer' = IF e.error = NoError
                 THEN [writer EXCEPT !.out = @ \o e.dst]
                 ELSE writer

CabrilloSend ==
    /\ sink = "CabrilloSink"
    /\ ~writer.closing /\ ~writer.shutdown
    /\ Len(sent) < MaxLog
    /\ \E item \in LogRecords :
          SendOutcome(item, EncodeItem(cabrillo, item, dst))
    /\ UNCHANGED <<sink, types, stream_vars, record_vars, datum_vars,
                   filter_vars>>

\* One poll of CabrilloSink::poll_close: Item::Eof goes to the encoder; an
\* error ends the close; otherwise FramedWrite::poll_close flushes the
\* buffer and shuts the writer down, or the writer answers Pending, with
\* the buffer written or not, and the close is polled again.
CloseOutcome(e) ==
    /\ sent' = IF writer.closing THEN sent ELSE Append(sent, ItemEof)
    /\ cabrillo' = e.enc
    /\ \/ /\ e.error # NoError
          /\ sink_results' = Append(sink_results, e.error)
          /\ dst' = e.dst
          /\ writer' = [writer EXCEPT !.closing = FALSE]
       \/ /\ e.error = NoError
          /\ sink_results' = Append(sink_results, NoError)
          /\ dst' = <<>>
          /\ writer' = [writer EXCEPT !.out = @ \o e.dst, !.closing = FALSE,
                                      !.shutdown = TRUE]
       \/ /\ e.error = NoError
          /\ writer.pending < MaxPending
          /\ sink_results' = sink_results
          /\ \E written \in BOOLEAN :
                /\ dst' = IF written THEN <<>> ELSE e.dst
                /\ writer' = [writer EXCEPT
                                !.out = IF written THEN @ \o e.dst ELSE @,
                                !.pending = @ + 1, !.closing = TRUE]

ClosePoll ==
    /\ sink = "CabrilloSink"
    /\ ~writer.shutdown
    /\ writer.closing \/ Len(sent) <= MaxLog
    /\ CloseOutcome(EncodeItem(cabrillo, ItemEof, dst))
    /\ UNCHANGED <<sink, types, stream_vars, record_vars, datum_vars,
                   filter_vars>>

NextCabrillo == CabrilloSend \/ ClosePoll

SpecCabrillo == InitCabrillo /\ [][NextCabrillo]_vars

\* A header was sent before the k-th item.
HeaderBefore(k) == \E j \in 1..(k - 1) : sent[j].header

\* The configured fields a record lacks, in any spelling.
Lacking(item) ==
    { f \in { cabrillo.fields[i] : i \in 1..Len(cabrillo.fields) } :
        Spellings(item.fields, f) = {} }

\* The result the protocol gives for the k-th item.
FollowsProtocol(k) ==
    IF sent[k] = ItemEof
    THEN sink_results[k] = (IF HeaderBefore(k) THEN NoError ELSE MissingHeader)
    ELSE IF sent[k].header
    THEN sink_results[k] = (IF HeaderBefore(k) THEN DuplicateHeader
                            ELSE NoError)
    ELSE IF ~HeaderBefore(k) THEN sink_results[k] = MissingHeader
    ELSE IF Lacking(sent[k]) = {} THEN sink_results[k] = NoError
    ELSE /\ sink_results[k].err = "MissingField"
         /\ sink_results[k].key \in Lacking(sent[k])
         /\ sink_results[k].record = sent[k]

\* The line of a record in the log, as the tests spell it.
LogLine(item) ==
    IF item = LogHeader THEN <<"C", "O", "N", "T", "E", "S", "T", ":", " ", "T", "\n">>
    ELSE IF item = QsoFull /\ cabrillo.fields = CallFreq
    THEN <<"Q", "S", "O", ":", " ", "W", "1", "A", "W", " ", "7", "\n">>
    ELSE IF item = QsoTyped /\ cabrillo.fields = DateTimeCall
    THEN <<"Q", "S", "O", ":", " ", "2", "0", "2", "0", "-", "0", "1", "-",
         "0", "1", " ", "1", "2", "3", "4", " ", "A", "B", "9", "B", "H",
         "\n">>
    ELSE <<>>

RECURSIVE LogLines(_)
LogLines(items) ==
    IF items = <<>> THEN <<>>
    ELSE IF items[1] = ItemEof THEN LogLines(Tail(items))
    ELSE LogLine(items[1]) \o LogLines(Tail(items))

\* The run was successful: every item was accepted and the close is done.
SuccessfulRun ==
    /\ writer.shutdown
    /\ Len(sink_results) = Len(sent)
    /\ \A k \in 1..Len(sent) : sink_results[k] = NoError

\* C30 (as claimed): Cabrillo log protocol.  Every item has got the result
\* its place in the order header, contacts, close gives it: MissingHeader
\* for a contact or a close before any header, DuplicateHeader for a second
\* header, MissingField for a contact that lacks a configured field; and
\* after a successful run the writer holds START-OF-LOG: 3.0, the header
\* lines, one QSO: line for each record in the order sent, and END-OF-LOG:.
C30_CabrilloLogProtocol ==
    /\ \A k \in 1..Len(sink_results) : FollowsProtocol(k)
    /\ SuccessfulRun
          => writer.out = <<"S", "T", "A", "R", "T", "-", "O", "F", "-", "L",
                          "O", "G", ":", " ", "3", ".", "0", "\n">>
                          \o LogLines(sent)
                          \o <<"E", "N", "D", "-", "O", "F", "-", "L", "O",
                             "G", ":", "\n">>

\* ------------------------------------------------- positions of a decoder
\* FramedRead::new(reader, TagDecoder::default())
InitDefault ==
    /\ NoCaller
    /\ NoCabrillo
    /\ NoAdapter
    /\ input \in DecodeInputs
    /\ ignore_partial = FALSE
    /\ pos = 0
    /\ src = <<>>
    /\ decoder = DefaultDecoder
    /\ is_readable = FALSE
    /\ eof = FALSE
    /\ has_errored = FALSE
    /\ tags = <<>>
    /\ record = NewRecord
    /\ records = <<>>
    /\ ended = FALSE
    /\ panicked = FALSE
    /\ eof_tag_at = None
    /\ rec = NewRecord
    /\ calls = <<>>
    /\ result = NoResult
    /\ err_record = NoRecord
    /\ NoSink

\* A tag stream over a decoder made in either of the two public ways.
InitPositions == InitDecode \/ InitDefault

SpecPositions == InitPositions /\ [][Next]_vars

\* C33 (as claimed): positions are 1-based in line and column and 0-based
\* in byte.  The position of every format error a tag stream has yielded
\* has line >= 1 and column >= 1, and an error at the first byte of the
\* stream is at line 1, column 1, byte 0.
C33_PositionsOneBased ==
    \A i \in 1..Len(tags) :
        (~tags[i].ok /\ tags[i].error.err = "InvalidFormat")
           => /\ tags[i].error.position.line >= 1
              /\ tags[i].error.position.column >= 1
              /\ tags[i].error.position.byte = 0
                    => (/\ tags[i].error.position.line = 1
                        /\ tags[i].error.position.column = 1)

\* The bytes of the buffer behind the tag the call has yielded: behind its
\* '>', and for a field behind its value.
AfterTag ==
    IF LastTag.tag.tag = "Field"
    THEN DropFront(FromTag, TagEnd + 1 + BodyLength)
    ELSE DropFront(FromTag, TagEnd + 1)

\* C34: exact consumption after a tag.  A decode call that yields
\* EndOfHeader, EndOfRecord or a Field leaves in the buffer what was behind
\* the tag (and the field's value) less the whitespace bytes right behind
\* it: the buffer is then empty or starts with a byte that is not
\* whitespace, and the decoder has counted exactly the bytes that left the
\* buffer.
C34_ExactConsumption ==
    [][(DecodeCall /\ YieldsTag /\ LastTag.ok)
         => /\ \E k \in 0..Len(AfterTag) :
                  /\ src' = DropFront(AfterTag, k)
                  /\ \A i \in 1..k : IsAsciiWhitespace(AfterTag[i])
            /\ src' = <<>> \/ ~IsAsciiWhitespace(src'[1])
            /\ decoder'.consumed = decoder.consumed + Len(src) - Len(src')
      ]_vars

\* <eOr>, a space and a newline have been consumed; the <eor> behind them
\* is still in the buffer.
C34_Witness ==
    /\ input = <<"<", "e", "O", "r", ">", " ", "\n", "<", "e", "o", "r", ">">>
    /\ pos = 12
    /\ tags = <<OkTag(Eor)>>
    /\ src = <<"<", "e", "o", "r", ">">>
    /\ decoder.consumed = 7

\* What a decoder with the other setting of ignore_partial returns for the
\* call that is about to be made, with the decoder and the buffer it
\* leaves.
OtherPolicy(overflow_checks) ==
    IF eof THEN DecodeEof(decoder, src, ~ignore_partial, overflow_checks)
    ELSE Decode(decoder, src, overflow_checks)

\* The call has returned `o.res` and left the decoder and the buffer of o.
Returned(o) ==
    /\ decoder' = o.d
    /\ src' = o.src
    /\ CASE o.res.kind = "Some" -> YieldsTag /\ LastTag = OkTag(o.res.tag)
         [] o.res.kind = "Err" -> YieldsTag /\ LastTag = ErrTag(o.res.error)
         [] o.res.kind = "None" -> tags' = tags /\ ~panicked'
         [] o.res.kind = "Panic" -> panicked'

TagsReturned == Cardinality({ i \in 1..Len(tags) : tags[i].ok })

\* C36: decoding makes progress.  Every decode call that returns a tag
\* removes at least one byte from the buffer, every decode call leaves a
\* suffix of the buffer it was given, and the decoder has never returned
\* more tags than it has removed bytes.
C36_DecodeProgress ==
    /\ [][DecodeCall =>
            /\ \E k \in 0..Len(src) : src' = DropFront(src, k)
            /\ (YieldsTag /\ LastTag.ok) => Len(src') < Len(src)
         ]_vars
    /\ [](TagsReturned <= pos - Len(src))

\* Two decode calls on the buffer "<eor>junk<eor>" have returned two tags
\* and emptied it.
C36_Witness ==
    /\ input = <<"<", "e", "o", "r", ">", "j", "u", "n", "k", "<", "e", "o",
                 "r", ">">>
    /\ pos = 14 /\ src = <<>>
    /\ tags = <<OkTag(Eor), OkTag(Eor)>>

\* C37: unterminated trailing fields under the strict policy.  With
\* ignore_partial = false, a record stream that has ended without any
\* error has an empty accumulator: the fields decoded after the last
\* boundary tag have been reported before the end.
C37_TrailingFieldsReported ==
    (/\ ended
     /\ ~ignore_partial
     /\ \A i \in 1..Len(tags) : tags[i].ok
     /\ \A i \in 1..Len(records) : records[i].ok)
        => record.fields = <<>>

\* The index of the last boundary tag among the items ts of the tag stream
\* (0 when there is none) and the fields of the tags that follow index b.
LastBoundary(ts) ==
    IF \E i \in 1..Len(ts) : ts[i].ok /\ ts[i].tag.tag \in {"Eoh", "Eor"}
    THEN CHOOSE i \in 1..Len(ts) :
            /\ ts[i].ok /\ ts[i].tag.tag \in {"Eoh", "Eor"}
            /\ \A j \in (i + 1)..Len(ts) :
                  ~(ts[j].ok /\ ts[j].tag.tag \in {"Eoh", "Eor"})
    ELSE 0

FieldsAfter(ts, b) ==
    [k \in 1..(Len(ts) - b) |-> Entry(ts[b + k].tag.name, ts[b + k].tag.value)]

LastRecord == records[Len(records)]

\* C38: continuing after a duplicate-key error.  The step that yields a
\* DuplicateKey error leaves the accumulator as it was and the stream
\* running; the record emitted at the next boundary tag holds the first
\* occurrence of every name among the field tags since the previous
\* boundary, those before and those after the error, in order, and its
\* header flag is set by that boundary tag.
C38_ContinueAfterDuplicate ==
    /\ [][(/\ YieldsTag
           /\ Len(records') = Len(records) + 1
           /\ ~records'[Len(records')].ok
           /\ records'[Len(records')].error.err = "DuplicateKey")
          => (record' = record /\ ~ended' /\ ~has_errored')]_vars
    /\ [][(/\ YieldsTag /\ LastTag.ok /\ LastTag.tag.tag \in {"Eoh", "Eor"}
           /\ \E k \in 1..Len(records) :
                 /\ ~records[k].ok /\ records[k].error.err = "DuplicateKey"
                 /\ \A j \in (k + 1)..Len(records) : ~records[j].ok)
          => /\ records' = Append(records,
                   OkRecord([header |-> LastTag.tag.tag = "Eoh",
                             fields |-> FirstOccurrences(
                                 FieldsAfter(tags, LastBoundary(tags)))]))
             /\ record' = NewRecord]_vars

\* The stream "<a:1>x<A:1>z<b:1>y<eor>" has yielded the DuplicateKey error
\* for A and then the record with a = x and b = y.
C38_Witness ==
    /\ input = DuplicateThenMore
    /\ Len(records) = 2
    /\ records[1] = ErrRecord(DuplicateKey(<<"a">>,
                        [header |-> FALSE,
                         fields |-> <<Entry(<<"a">>, DString(<<"x">>))>>]))
    /\ records[2] = OkRecord([header |-> FALSE,
                              fields |-> <<Entry(<<"a">>, DString(<<"x">>)),
                                           Entry(<<"b">>, DString(<<"y">>))>>])

\* The type codes whose typed decode an accessor matches.
TypeCodes(accessor) ==
    CASE accessor = "as_number" -> {<<"n">>, <<"N">>}
      [] accessor = "as_bool"   -> {<<"b">>, <<"B">>}
      [] accessor = "as_date"   -> {<<"d">>, <<"D">>}
      [] accessor = "as_time"   -> {<<"t">>, <<"T">>}
      [] OTHER                  -> {}

\* C39: typed decode and untyped decode with the matching accessor agree.
\* For every String datum of text v an accessor has been called on, and
\* every type code of that accessor in either case, the typed decode of v
\* gives the value the accessor returned, and fails exactly when the
\* accessor returned none.
C39_TypedMatchesAccessor ==
    \A i \in 1..Len(accessed) :
        accessed[i].of.typ = "String"
            => \A typ \in TypeCodes(accessed[i].accessor) :
                  ParseTypedValue(accessed[i].of.s, typ) = accessed[i].result

\* as_bool has returned true for the text "y", and as_date none.
C39_Witness ==
    /\ datum = DString(<<"y">>)
    /\ Len(accessed) = 2
    /\ accessed[1].accessor = "as_bool"
    /\ accessed[1].result = SomeDatum(DBoolean(TRUE))
    /\ accessed[2].accessor = "as_date"
    /\ accessed[2].result = NoDatum

\* How many times the bytes of `line` occur in `text`.
Occurrences(text, line) ==
    Cardinality({ i \in 1..(Len(text) - Len(line) + 1) :
                    SubSeq(text, i, i + Len(line) - 1) = line })

\* C40: the end line of a log.  When the close of a log with a header is
\* done, however many times poll_close was polled, the writer holds
\* "END-OF-LOG:" exactly once, as its last line.
C40_TrailerOnce ==
    (writer.shutdown /\ cabrillo.started)
        => /\ Occurrences(writer.out, EndOfLog) = 1
           /\ Len(writer.out) >= Len(EndOfLog)
           /\ SubSeq(writer.out, Len(writer.out) - Len(EndOfLog) + 1,
                     Len(writer.out)) = EndOfLog

\* ------------------------------------------------------- stream adapters
\* Bound: the items the stream under an adapter yields before it ends.
MaxUpstream == 3

\* The field names of the normalizers.
TIME_ON == <<":", "t", "i", "m", "e", "_", "o", "n">>
TIME_OFF == <<":", "t", "i", "m", "e", "_", "o", "f", "f">>
MODE == <<":", "m", "o", "d", "e">>
BAND == <<":", "b", "a", "n", "d">>
MFSK_SUBMODES == {<<"F", "T", "4">>, <<"Q", "6", "5">>}
QSO_DATE == <<"q", "s", "o", "_", "d", "a", "t", "e">>
QSO_DATE_OFF == <<"q", "s", "o", "_", "d", "a", "t", "e", "_", "o", "f", "f">>
TIME_ON_SRC == <<"t", "i", "m", "e", "_", "o", "n">>
TIME_OFF_SRC == <<"t", "i", "m", "e", "_", "o", "f", "f">>

\* NaiveDate + Days::new(1)
NextDay(d) ==
    IF d.n[3] < DaysInMonth(d.n[1], d.n[2]) THEN DDate(d.n[1], d.n[2], d.n[3] + 1)
    ELSE IF d.n[2] < 12 THEN DDate(d.n[1], d.n[2] + 1, 1)
    ELSE DDate(d.n[1] + 1, 1, 1)

\* NaiveDateTime::new(date, time)
NewDateTime(d, t) == DDateTime(d.n[1], d.n[2], d.n[3], t.n[1], t.n[2], t.n[3])

\* time_off < time_on, for times of whole seconds.
TimeBefore(a, b) ==
    \/ a.n[1] < b.n[1]
    \/ a.n[1] = b.n[1] /\ a.n[2] < b.n[2]
    \/ a.n[1] = b.n[1] /\ a.n[2] = b.n[2] /\ a.n[3] < b.n[3]

\* record.get(name).and_then(|d| d.as_date()), and the same for a time.
GetDate(r, name) ==
    IF Get(r, name).ok THEN AsDate(Get(r, name).datum) ELSE NoDatum
GetTime(r, name) ==
    IF Get(r, name).ok THEN AsTime(Get(r, name).datum) ELSE NoDatum

\* The closure of normalize_times, second half: `:time_off` from time_off
\* and the date of qso_date_off, of the next day when the contact ended
\* before the time it began, or of qso_date; the result of the insert is
\* dropped.
WithTimeOff(r, date, time_on, time_off, date_off) ==
    IF ~time_off.ok THEN r
    ELSE Insert(r, TIME_OFF,
                NewDateTime(IF date_off.ok THEN date_off.datum
                            ELSE IF TimeBefore(time_off.datum, time_on)
                                 THEN NextDay(date)
                                 ELSE date,
                            time_off.datum)).record

\* The closure of normalize_times: the record it leaves.
NormalizeTimes(r) ==
    IF GetDate(r, QSO_DATE).ok /\ GetTime(r, TIME_ON_SRC).ok
    THEN WithTimeOff(Insert(r, TIME_ON,
                            NewDateTime(GetDate(r, QSO_DATE).datum,
                                        GetTime(r, TIME_ON_SRC).datum)).record,
                     GetDate(r, QSO_DATE).datum,
                     GetTime(r, TIME_ON_SRC).datum,
                     GetTime(r, TIME_OFF_SRC),
                     GetDate(r, QSO_DATE_OFF))
    ELSE r

\* The mode normalize_mode reads: mode, else app_lotw_mode, else
\* app_lotw_modegroup, as text.
SourceMode(r) ==
    IF Get(r, <<"m", "o", "d", "e">>).ok THEN Get(r, <<"m", "o", "d", "e">>)
    ELSE IF Get(r, <<"a", "p", "p", "_", "l", "o", "t", "w", "_", "m", "o", "d", "e">>).ok
         THEN Get(r, <<"a", "p", "p", "_", "l", "o", "t", "w", "_", "m", "o", "d", "e">>)
    ELSE Get(r, <<"a", "p", "p", "_", "l", "o", "t", "w", "_", "m", "o", "d", "e", "g", "r", "o", "u", "p">>)

\* The closure of normalize_mode: the submode stands for the mode MFSK when
\* it is FT4 or Q65, in any case; the result of the insert is dropped.
NormalizeMode(r) ==
    IF ~SourceMode(r).ok THEN r
    ELSE IF /\ Get(r, <<"s", "u", "b", "m", "o", "d", "e">>).ok
            /\ EqIgnoreAsciiCase(AsStr(SourceMode(r).datum), <<"M", "F", "S", "K">>)
            /\ \E m \in MFSK_SUBMODES :
                  EqIgnoreAsciiCase(m, AsStr(Get(r, <<"s", "u", "b", "m", "o", "d", "e">>).datum))
    THEN Insert(r, MODE, DString(AsStr(Get(r, <<"s", "u", "b", "m", "o", "d", "e">>).datum))).record
    ELSE Insert(r, MODE, DString(AsStr(SourceMode(r).datum))).record

\* char::is_uppercase and char::is_alphabetic, for ASCII text.
IsUppercase(c) == \E i \in 1..26 : Upper[i] = c
IsAlphabetic(c) == \E i \in 1..26 : Upper[i] = c \/ Lower[i] = c

\* The closure of normalize_band; the result of the insert is dropped.
NormalizeBand(r) ==
    IF ~Get(r, <<"b", "a", "n", "d">>).ok THEN r
    ELSE IF \A i \in 1..Len(AsStr(Get(r, <<"b", "a", "n", "d">>).datum)) :
               \/ IsUppercase(AsStr(Get(r, <<"b", "a", "n", "d">>).datum)[i])
               \/ ~IsAlphabetic(AsStr(Get(r, <<"b", "a", "n", "d">>).datum)[i])
    THEN Insert(r, BAND, DString(AsStr(Get(r, <<"b", "a", "n", "d">>).datum))).record
    ELSE Insert(r, BAND,
                DString(ToUppercase(AsStr(Get(r, <<"b", "a", "n", "d">>).datum)))).record

\* The closure of exclude_callsigns(stream, callsigns) and of
\* exclude_header.
ExcludeCallsigns(callsigns, r) ==
    IF ~Get(r, <<"c", "a", "l", "l">>).ok THEN TRUE
    ELSE ~\E c \in callsigns :
             EqIgnoreAsciiCase(ToUppercase(c), AsStr(Get(r, <<"c", "a", "l", "l">>).datum))

ExcludeHeader(r) == ~r.header

Normalizers == {"normalize_times", "normalize_mode", "normalize_band"}
Filters == {"exclude_callsigns", "exclude_header"}

\* (this.f)(&mut record) of a Normalize and (this.f)(&record) of a Filter.
Normalized(f, r) ==
    CASE f = "normalize_times" -> NormalizeTimes(r)
      [] f = "normalize_mode"  -> NormalizeMode(r)
      [] f = "normalize_band"  -> NormalizeBand(r)

Kept(f, r) ==
    CASE f = "exclude_callsigns" -> ExcludeCallsigns({<<"a", "b", "9", "b", "h">>}, r)
      [] f = "exclude_header"    -> ExcludeHeader(r)

\* Mutant of FilterReturns: an error is dropped like a record the closure
\* rejects.
FilterReturns_DropsErrors(f, item) == item.ok /\ Kept(f, item.record)

\* Filter::poll_next: the loop returns this item of the stream.
FilterReturns(f, item) == ~item.ok \/ Kept(f, item.record)

\* A header, a contact every normalizer has sources for, a contact with
\* only a callsign, and the first contact as the three normalizers leave
\* it, with the derived fields.
LogHead ==
    [header |-> TRUE,
     fields |-> <<Entry(<<"a", "d", "i", "f", "_", "v", "e", "r">>, DString(<<"3">>))>>]
QsoSources ==
    [header |-> FALSE,
     fields |-> <<Entry(<<"c", "a", "l", "l">>, DString(<<"W", "1", "A", "W">>)),
                  Entry(<<"m", "o", "d", "e">>, DString(<<"m", "f", "s", "k">>)),
                  Entry(<<"S", "U", "B", "M", "O", "D", "E">>, DString(<<"f", "t", "4">>)),
                  Entry(<<"b", "a", "n", "d">>, DString(<<"2", "0", "m">>)),
                  Entry(<<"q", "s", "o", "_", "d", "a", "t", "e">>, DString(<<"2", "0", "2", "4", "0", "1", "0", "1">>)),
                  Entry(<<"t", "i", "m", "e", "_", "o", "n">>, DString(<<"2", "3", "0", "0", "0", "0">>)),
                  Entry(<<"t", "i", "m", "e", "_", "o", "f", "f">>, DString(<<"0", "1", "0", "0", "0", "0">>))>>]
QsoCallOnly ==
    [header |-> FALSE,
     fields |-> <<Entry(<<"C", "A", "L", "L">>, DString(<<"A", "b", "9", "b", "h">>))>>]
QsoDerived ==
    NormalizeTimes(NormalizeBand(NormalizeMode(QsoSources)))

UpstreamItems ==
    { OkRecord(LogHead), OkRecord(QsoSources), OkRecord(QsoCallOnly),
      OkRecord(QsoDerived),
      ErrRecord(InvalidFormat(PartialData,
                              [line |-> 1, column |-> 36, byte |-> 35])) }

\* stream.normalize(f) or stream.filter(f) on a stream that yields the
\* items of adapter.stream and then ends; `taken` of them have been polled.
InitFilter ==
    /\ \E f \in Normalizers \cup Filters,
          s \in UNION { [1..n -> UpstreamItems] : n \in 0..MaxUpstream } :
          adapter = [f |-> f, stream |-> s, taken |-> 0, done |-> FALSE]
    /\ yielded = <<>>
    /\ NoCaller
    /\ NoCabrillo
    /\ NoSink
    /\ input = <<>>
    /\ ignore_partial = FALSE
    /\ pos = 0
    /\ src = <<>>
    /\ decoder = NewDecoder
    /\ is_readable = FALSE
    /\ eof = FALSE
    /\ has_errored = FALSE
    /\ tags = <<>>
    /\ record = NewRecord
    /\ records = <<>>
    /\ ended = FALSE
    /\ panicked = FALSE
    /\ eof_tag_at = None
    /\ rec = NewRecord
    /\ calls = <<>>
    /\ result = NoResult
    /\ err_record = NoRecord

\* The item the stream under the adapter yields next.
NextItem == adapter.stream[adapter.taken + 1]

\* Normalize::poll_next: a record goes through the closure and is yielded,
\* an error is yielded as it is, the end of the stream is the end.
NormalizePoll ==
    /\ adapter.f \in Normalizers
    /\ ~adapter.done
    /\ IF adapter.taken = Len(adapter.stream)
       THEN /\ adapter' = [adapter EXCEPT !.done = TRUE]
            /\ yielded' = yielded
       ELSE /\ adapter' = [adapter EXCEPT !.taken = @ + 1]
            /\ yielded' = Append(yielded,
                   IF NextItem.ok
                   THEN OkRecord(Normalized(adapter.f, NextItem.record))
                   ELSE NextItem)
    /\ UNCHANGED <<stream_vars, record_vars, sink_vars, datum_vars,
                   cabrillo_vars>>

\* The items the loop of Filter::poll_next polls after the first `taken`
\* and goes round again for: the records the closure rejects, up to the
\* first item it returns.
Rejected(f, s, taken) ==
    CHOOSE k \in 0..(Len(s) - taken) :
        /\ \A i \in (taken + 1)..(taken + k) : ~FilterReturns(f, s[i])
        /\ (taken + k < Len(s) => FilterReturns(f, s[taken + k + 1]))

\* Filter::poll_next: the loop drops the records the closure rejects and
\* returns the first record it accepts, the first error or the end of the
\* stream; or the stream answers Pending after some of the dropped records
\* and the poll returns Pending.
FilterOutcome(k) ==
    \/ /\ adapter.taken + k = Len(adapter.stream)
       /\ adapter' = [adapter EXCEPT !.taken = @ + k, !.done = TRUE]
       /\ yielded' = yielded
    \/ /\ adapter.taken + k < Len(adapter.stream)
       /\ adapter' = [adapter EXCEPT !.taken = @ + k + 1]
       /\ yielded' = Append(yielded, adapter.stream[adapter.taken + k + 1])
    \/ /\ \E j \in 1..k : adapter' = [adapter EXCEPT !.taken = @ + j]
       /\ yielded' = yielded

FilterPoll ==
    /\ adapter.f \in Filters
    /\ ~adapter.done
    /\ FilterOutcome(Rejected(adapter.f, adapter.stream, adapter.taken))
    /\ UNCHANGED <<stream_vars, record_vars, sink_vars, datum_vars,
                   cabrillo_vars>>

NextFilter == NormalizePoll \/ FilterPoll

SpecFilter == InitFilter /\ [][NextFilter]_vars

\* The items the adapter has polled from the stream under it.
Taken == SubSeq(adapter.stream, 1, adapter.taken)

\* The item is an error, or a record the predicate of the filter is true
\* for.
PassesFilter(item) ==
    \/ ~item.ok
    \/ (adapter.f = "exclude_header" /\ ~item.record.header)
    \/ /\ adapter.f = "exclude_callsigns"
       /\ \A i \in 1..Len(item.record.fields) :
             EqIgnoreAsciiCase(item.record.fields[i].name,
                               <<"c", "a", "l", "l">>)
                => ~EqIgnoreAsciiCase(AsStr(item.record.fields[i].value),
                                      <<"a", "b", "9", "b", "h">>)

\* C31: adapter pass-through.  A Filter has yielded exactly the polled
\* records its predicate is true for and every polled error, in order, and
\* nothing else; a Normalize has yielded one item per polled item, in
\* order: the same error for an error, and for a record a record with the
\* same flag that begins with the same fields; either adapter ends only
\* when the stream under it has ended, and each poll yields at most one
\* item.
C31_AdapterPassThrough ==
    /\ [](adapter.f \in Filters => yielded = SelectSeq(Taken, PassesFilter))
    /\ [](adapter.f \in Normalizers =>
            /\ Len(yielded) = adapter.taken
            /\ \A i \in 1..Len(yielded) :
                  IF Taken[i].ok
                  THEN /\ yielded[i].ok
                       /\ yielded[i].record.header = Taken[i].record.header
                       /\ Len(yielded[i].record.fields)
                             >= Len(Taken[i].record.fields)
                       /\ SubSeq(yielded[i].record.fields, 1,
                                 Len(Taken[i].record.fields))
                             = Taken[i].record.fields
                  ELSE yielded[i] = Taken[i])
    /\ [](adapter.done => adapter.taken = Len(adapter.stream))
    /\ [][/\ Len(yielded') <= Len(yielded) + 1
          /\ SubSeq(yielded', 1, Len(yielded)) = yielded]_vars

\* exclude_header has dropped the header, yielded the contact and the
\* error after it, and ended.
C31_Witness ==
    /\ adapter.f = "exclude_header"
    /\ adapter.done
    /\ Len(adapter.stream) = 3
    /\ adapter.stream[1] = OkRecord(LogHead)
    /\ adapter.stream[2] = OkRecord(QsoCallOnly)
    /\ ~adapter.stream[3].ok
    /\ yielded = <<adapter.stream[2], adapter.stream[3]>>

\* The derived field a normalizer inserts first.
DerivedKey(f) ==
    CASE f = "normalize_times" -> TIME_ON
      [] f = "normalize_mode"  -> MODE
      [] f = "normalize_band"  -> BAND

\* C32: a normalizer that finds its derived field.  For a record that has
\* the sources of a normalizer and already holds the field it derives, the
\* normalizer yields a DuplicateKey error for that key which carries the
\* record, and not the record.
C32_NormalizerDuplicateKey ==
    adapter.f \in Normalizers
        => \A i \in 1..Len(yielded) :
              Taken[i] = OkRecord(QsoDerived)
                 => /\ ~yielded[i].ok
                    /\ yielded[i].error.err = "DuplicateKey"
                    /\ yielded[i].error.key = DerivedKey(adapter.f)
                    /\ yielded[i].error.record = QsoDerived

====
